---- MODULE Spec2Model ----
(***************************************************************************)
(* Model of grapeot/agentic_code_index.                                    *)
(*                                                                         *)
(*   Spec       the tool-calling agent loop (src/agent.py, Agent.query)    *)
(*   BuildSpec  the index builder and the searcher's loading of its output *)
(*              (src/src/indexing.py, src/search.py)                       *)
(*                                                                         *)
(* Python values are modelled as follows.  A str is a TLA+ string; None is *)
(* the reserved string NoneValue.  A parsed JSON value is a record tagged  *)
(* by ty ("object", "array", "string", "number", "null"); json.loads of a  *)
(* text that is not JSON gives the tag "JSONDecodeError".                  *)
(***************************************************************************)
EXTENDS Integers, Sequences, FiniteSets, TLC

\* ------------------------------------------------------------------ bounds
\* Largest max_iterations an Agent is constructed with.
MaxIterations == 3
\* Largest number of tool calls the language model issues in one query.
MaxToolCalls == 2
\* Number of builds run one after the other into the same output directory.
MaxBuilds == 2
\* Texts per embedding call.  The program uses 100 (indexing.py, batch_size);
\* the model scales it down so that a kind's chunks span several batches.
BatchSize == 2
MaxLines == 5
MaxSpans == 2
MaxTopK == 2
MaxQueries == 2
MaxRequeryIterations == 2
MaxRequests == 2
MaxServeIterations == 2
MaxWorkers == 2
MaxReloads == 3

\* ---------------------------------------------------------- Python values
NoneValue == "<None>"

\* Python truthiness of an Optional[str]: None and "" are falsy.
TruthyNonNull(content) == content # NoneValue
Truthy(content) == content # NoneValue /\ content # ""

JStr(s) == [ty |-> "string", s |-> s]
JNum(n) == [ty |-> "number", n |-> n]
JArr(items) == [ty |-> "array", items |-> items]
JObj(members) == [ty |-> "object", members |-> members]
JNull == [ty |-> "null"]
JSONDecodeError == [ty |-> "JSONDecodeError"]

\* The texts the modelled language model answers with.
TextAnswer == "Agent.query drives the loop"
JsonFull == "{\"answer\": \"A\", \"confidence\": \"high\", \"sources\": [\"agent.py\"], \"reasoning\": \"r\"}"
JsonMinimal == "{\"answer\": \"A\", \"confidence\": \"low\"}"
JsonExtraKey == "{\"answer\": \"A\", \"confidence\": \"medium\", \"extra\": 1}"
JsonBadConfidence == "{\"answer\": \"A\", \"confidence\": \"certain\"}"
JsonNumConfidence == "{\"answer\": \"A\", \"confidence\": 1}"
JsonNoAnswer == "{\"confidence\": \"high\"}"
JsonNumAnswer == "{\"answer\": 42, \"confidence\": \"medium\"}"
JsonStrSources == "{\"answer\": \"A\", \"confidence\": \"medium\", \"sources\": \"agent.py\"}"
JsonArray == "[\"A\", \"high\"]"
JsonNumber == "42"
JsonNull == "null"

\* The argument strings the modelled language model attaches to tool calls.
ArgsFilePath == "{\"file_path\": \"a.py\"}"
ArgsTruncated == "{\"file_path\": \"a.py\""
ArgsArray == "[\"a.py\"]"
ArgsWrongKey == "{\"path\": \"a.py\"}"

\* json.loads on the texts above.
json_loads(s) ==
  CASE s = JsonFull -> JObj([answer |-> JStr("A"), confidence |-> JStr("high"),
                             sources |-> JArr(<<JStr("agent.py")>>), reasoning |-> JStr("r")])
    [] s = JsonMinimal -> JObj([answer |-> JStr("A"), confidence |-> JStr("low")])
    [] s = JsonExtraKey -> JObj([answer |-> JStr("A"), confidence |-> JStr("medium"), extra |-> JNum(1)])
    [] s = JsonBadConfidence -> JObj([answer |-> JStr("A"), confidence |-> JStr("certain")])
    [] s = JsonNumConfidence -> JObj([answer |-> JStr("A"), confidence |-> JNum(1)])
    [] s = JsonNoAnswer -> JObj([confidence |-> JStr("high")])
    [] s = JsonNumAnswer -> JObj([answer |-> JNum(42), confidence |-> JStr("medium")])
    [] s = JsonStrSources -> JObj([answer |-> JStr("A"), confidence |-> JStr("medium"),
                                   sources |-> JStr("agent.py")])
    [] s = JsonArray -> JArr(<<JStr("A"), JStr("high")>>)
    [] s = JsonNumber -> JNum(42)
    [] s = JsonNull -> JNull
    [] s = ArgsFilePath -> JObj([file_path |-> JStr("a.py")])
    [] s = ArgsArray -> JArr(<<JStr("a.py")>>)
    [] s = ArgsWrongKey -> JObj([path |-> JStr("a.py")])
    [] OTHER -> JSONDecodeError

Contents == {NoneValue, "", TextAnswer, JsonFull, JsonMinimal, JsonExtraKey,
             JsonBadConfidence, JsonNumConfidence, JsonNoAnswer, JsonNumAnswer,
             JsonStrSources, JsonArray, JsonNumber, JsonNull}

\* Contents of a response that also carries tool calls.
CallContents == {NoneValue, TextAnswer, JsonMinimal}

\* ------------------------------------------------- models.py: FinalAnswer
\* Field(pattern="^(high|medium|low)$") on a str.
ConfidencePatternLoose(s) == TRUE
ConfidencePattern(s) == s \in {"high", "medium", "low"}

IsListOfStr(v) == v.ty = "array" /\ \A i \in 1..Len(v.items) : v.items[i].ty = "string"

\* Does the mapping d (JSON object members) pass FinalAnswer's validation?
FinalAnswerValid(d) ==
  /\ "answer" \in DOMAIN d /\ d["answer"].ty = "string"
  /\ "confidence" \in DOMAIN d /\ d["confidence"].ty = "string"
  /\ ConfidencePattern(d["confidence"].s)
  /\ "sources" \in DOMAIN d => IsListOfStr(d["sources"])
  /\ "reasoning" \in DOMAIN d => d["reasoning"].ty \in {"string", "null"}

\* The FinalAnswer object built from a valid mapping (defaults filled in,
\* unknown keys ignored).
FinalAnswerOf(d) ==
  [answer |-> d["answer"].s,
   confidence |-> d["confidence"].s,
   sources |-> IF "sources" \in DOMAIN d
               THEN [i \in 1..Len(d["sources"].items) |-> d["sources"].items[i].s]
               ELSE <<>>,
   reasoning |-> IF "reasoning" \in DOMAIN d /\ d["reasoning"].ty = "string"
                 THEN d["reasoning"].s ELSE NoneValue]

NoAnswer == [answer |-> NoneValue, confidence |-> NoneValue, sources |-> <<>>, reasoning |-> NoneValue]

\* --------------------------------------------------- tools.py: TOOLS
ToolNames == {"search", "list_file_content", "cat", "ls", "find"}

\* Required and optional keyword parameters of each tool function.
RequiredParams(name) ==
  CASE name = "search" -> {"question", "index_type"}
    [] name = "list_file_content" -> {"file_path"}
    [] name = "cat" -> {"file_path"}
    [] name = "ls" -> {}
    [] name = "find" -> {"pattern"}

OptionalParams(name) ==
  CASE name = "search" -> {"top_k"}
    [] name = "list_file_content" -> {}
    [] name = "cat" -> {}
    [] name = "ls" -> {"dir_path"}
    [] name = "find" -> {"start_path"}

\* tool_func(**arguments) binds: arguments is a mapping whose keys are the
\* function's parameters, all required ones present.
Binds(name, arguments) ==
  /\ arguments.ty = "object"
  /\ RequiredParams(name) \subseteq DOMAIN arguments.members
  /\ DOMAIN arguments.members \subseteq RequiredParams(name) \cup OptionalParams(name)

\* What a tool body does once called: returns a success record, returns a
\* failure record, or raises.
ToolOutcomes == {"ok", "fail", "raise"}

\* Tool-call inputs of the modelled language model: name and argument string.
CallInputs == {[name |-> "cat", arguments |-> ArgsFilePath],
               [name |-> "cat", arguments |-> ArgsTruncated],
               [name |-> "cat", arguments |-> ArgsArray],
               [name |-> "cat", arguments |-> ArgsWrongKey],
               [name |-> "rm", arguments |-> ArgsFilePath]}

CallSeqs(n) == UNION {[1..k -> CallInputs] : k \in 0..n}

\* A tool result as dispatch sees it.  raised: an exception left the callee;
\* success is "true", "false" or "absent" (the key is missing).
Payload(success, error) == [raised |-> FALSE, success |-> success, error |-> error]
Raised == [raised |-> TRUE, success |-> "absent", error |-> "Exception"]

\* The try body of _execute_tool: tool_func(**arguments).
CallToolFunc(name, arguments, outcome) ==
  IF ~Binds(name, arguments) THEN Raised
  ELSE CASE outcome = "ok" -> Payload("true", NoneValue)
         [] outcome = "fail" -> Payload("false", "File not found: a.py")
         [] outcome = "raise" -> Raised

_execute_tool_nocatch(name, arguments, outcome) ==
  IF name \notin ToolNames THEN Payload("false", "Unknown tool")
  ELSE CallToolFunc(name, arguments, outcome)

_execute_tool(name, arguments, outcome) ==
  IF name \notin ToolNames THEN Payload("false", "Unknown tool")
  ELSE LET r == CallToolFunc(name, arguments, outcome)
       IN  IF r.raised THEN Payload("false", "Tool execution error") ELSE r

\* Is tool_func's body entered by this call?
BodyRuns(name, arguments) == name \in ToolNames /\ Binds(name, arguments)

\* --------------------------------------------- indexing.py: pure parts
Min(a, b) == IF a < b THEN a ELSE b
Max(a, b) == IF a > b THEN a ELSE b

\* Python's s[a:b] on a list (0-based, negative indices count from the end).
SliceIndexShort(i, n) == IF i < 0 THEN Max(i + n, 0) ELSE IF i > n THEN n - 1 ELSE i
SliceIndex(i, n) == IF i < 0 THEN Max(i + n, 0) ELSE Min(i, n)
PySlice(s, a, b) ==
  LET lo == SliceIndex(a, Len(s))
      hi == SliceIndex(b, Len(s))
  IN  IF lo >= hi THEN <<>> ELSE SubSeq(s, lo + 1, hi)

\* The source files under the codebase root.  A content is the list of its
\* lines (content.split('\n')); a chunk's content is a list of lines too.
FilePaths == {"a.py", "b.py"}

SmallContent(path) ==
  IF path = "a.py" THEN <<"def f():", "  return 1", "x = f()">>
  ELSE <<"import a", "def g():", "  return a.x">>
\* A content of more than 50000 characters (a single long line).
BigContent == <<"DATA = '...'">>

\* A content of exactly 50000 characters (a single long line).
ThresholdContent == <<"EDGE = '...'">>

\* len(content)
NChars(content) ==
  IF content = BigContent THEN 50001
  ELSE IF content = ThresholdContent THEN 50000 ELSE 30

\* The size check taken with >= in place of >.
OversizedAtThreshold(content) == NChars(content) >= 50000

\* if len(content) > 50000
Oversized(content) == NChars(content) > 50000

\* What open(file_path).read() gives: a content, or Unreadable when it raises.
Unreadable == <<"<unreadable>">>
ReadOutcomes(path) == {Unreadable, SmallContent(path), BigContent}

\* What the language model returns for the functions of a file.  A span is a
\* dict; its keys are the record's fields.
Span(name, first, last) == [function_name |-> name, start_line |-> first, end_line |-> last]
ParseFailed == <<[failed |-> TRUE]>>
MalformedSpans == <<[function_name |-> "f"]>>
OutOfRangeSpans == <<Span("f", 2, 9)>>
ExtractorOutcomes ==
  {ParseFailed, <<>>, <<Span("f", 1, 2)>>, <<Span("f", 2, 3), Span("g", 1, 1)>>, MalformedSpans,
   OutOfRangeSpans}

\* The extractor is not called at all (unreadable or oversized file).
NotCalled == <<[not_called |-> TRUE]>>
ExtractorOutcomesFor(read) ==
  IF read = Unreadable \/ Oversized(read) THEN {NotCalled} ELSE ExtractorOutcomes

\* _parse_functions: any failure inside gives the empty list.
_parse_functions(outcome) == IF outcome = ParseFailed THEN <<>> ELSE outcome

FileChunk(path, content) ==
  [type |-> "file", file_path |-> path, function_name |-> NoneValue,
   content |-> content, start_line |-> 1, end_line |-> Len(content)]

FunctionChunkOffByOne(path, lines, func) ==
  [type |-> "function", file_path |-> path, function_name |-> func.function_name,
   content |-> PySlice(lines, func.start_line, func.end_line),
   start_line |-> func.start_line, end_line |-> func.end_line]

FunctionChunk(path, lines, func) ==
  [type |-> "function", file_path |-> path, function_name |-> func.function_name,
   content |-> PySlice(lines, func.start_line - 1, func.end_line),
   start_line |-> func.start_line, end_line |-> func.end_line]

\* func["start_line"], func["end_line"], func["function_name"] raise KeyError
\* on a span without the key.
SpanHasKeys(func) == {"function_name", "start_line", "end_line"} \subseteq DOMAIN func

\* _create_chunks; TaskFailed when it raises.
TaskFailed == <<[failed |-> TRUE]>>
_create_chunks(path, content, functions) ==
  IF \E k \in 1..Len(functions) : ~SpanHasKeys(functions[k])
  THEN TaskFailed
  ELSE <<FileChunk(path, content)>> \o
       [k \in 1..Len(functions) |-> FunctionChunk(path, content, functions[k])]

\* A worker that gives up on the whole file when the extraction fails.
_process_single_file_giving_up(path, read, extracted) ==
  IF read = Unreadable THEN <<>>
  ELSE IF NChars(read) > 50000 THEN <<FileChunk(path, read)>>
  ELSE IF extracted = ParseFailed THEN <<>>
  ELSE _create_chunks(path, read, _parse_functions(extracted))

\* _process_single_file: the chunks the worker returns, TaskFailed when the
\* worker raises.
_process_single_file(path, read, extracted) ==
  IF read = Unreadable THEN <<>>
  ELSE IF Oversized(read) THEN <<FileChunk(path, read)>>
  ELSE _create_chunks(path, read, _parse_functions(extracted))

\* future.result() in the collecting loop: a failed task adds nothing.
Collected(chunks, task) == IF task = TaskFailed THEN chunks ELSE chunks \o task

\* [c for c in chunks if c["type"] == kind]
OfKind(chunks, kind) == SelectSeq(chunks, LAMBDA c : c.type = kind)
Contents_(chunks) == [i \in 1..Len(chunks) |-> chunks[i].content]

\* sorted(files)
SortedPaths(paths) ==
  IF paths = {} THEN <<>>
  ELSE IF paths = {"a.py"} THEN <<"a.py">>
  ELSE IF paths = {"b.py"} THEN <<"b.py">>
  ELSE <<"a.py", "b.py">>

\* The embedding service: a deterministic vector per text.
LineCode(line) ==
  CASE line = "def f():" -> 1
    [] line = "  return 1" -> 2
    [] line = "x = f()" -> 4
    [] line = "import a" -> 8
    [] line = "def g():" -> 16
    [] line = "  return a.x" -> 32
    [] OTHER -> 64
RECURSIVE SumCodes(_)
SumCodes(lines) == IF lines = <<>> THEN 0 ELSE LineCode(Head(lines)) + SumCodes(Tail(lines))
Embed(text) == <<Len(text), SumCodes(text)>>
\* _get_embeddings(texts) when the call succeeds: one row per text, in order.
_get_embeddings(texts) == [i \in 1..Len(texts) |-> Embed(texts[i])]

\* One call of _get_embeddings, as logged: the kind of the chunks and the texts.
EmbedCall(kind, texts, returned) == [kind |-> kind, texts |-> texts, returned |-> returned]

\* A response of the embeddings service with one vector fewer than texts.
ShortResponse(texts) == [i \in 1..(Len(texts) - 1) |-> Embed(texts[i])]

\* The loop passes all the remaining contents in one call.
NextBatchWhole(contents, done) == PySlice(contents, done, Len(contents))

\* batch = contents[i:i+batch_size], i being the number of rows already there
NextBatch(contents, done) == PySlice(contents, done, done + BatchSize)

\* The output directory.  A missing file has exists = FALSE; build is the run
\* that wrote the file.
NoFile ==
  [exists |-> FALSE, corrupt |-> FALSE, build |-> 0, vectors |-> <<>>, chunks |-> <<>>]
IndexFile(build, vectors) ==
  [exists |-> TRUE, corrupt |-> FALSE, build |-> build, vectors |-> vectors, chunks |-> <<>>]
MetadataFile(build, chunks) ==
  [exists |-> TRUE, corrupt |-> FALSE, build |-> build, vectors |-> <<>>, chunks |-> chunks]
\* A file that exists and cannot be parsed: json.load or faiss.read_index raises.
CorruptFile ==
  [exists |-> TRUE, corrupt |-> TRUE, build |-> 0, vectors |-> <<>>, chunks |-> <<>>]
EmptyDir == [file_index |-> NoFile, function_index |-> NoFile, metadata |-> NoFile]

NoSummary == [status |-> NoneValue, total_files |-> 0, total_chunks |-> 0,
              file_chunks |-> 0, function_chunks |-> 0]

\* A completed run of index(): its files, what its tasks read and extracted,
\* and what it produced.
NoRun == [valid |-> FALSE, files |-> <<>>, inputs |-> {}, chunks |-> <<>>,
          file_vectors |-> <<>>, function_vectors |-> <<>>]

\* --------------------------------------------------- search.py: pure parts
\* CodeSearcher.__init__ on a directory: the three attributes after
\* _load_indices without its try/except: the exception of a file that cannot
\* be parsed leaves the constructor.
_load_indices_uncaught(dir) ==
  [raised |-> \E name \in {"metadata", "file_index", "function_index"} : dir[name].corrupt,
   metadata |-> NoFile, file_index |-> NoFile, function_index |-> NoFile]

\* _load_indices (None is a file record with exists = FALSE).  The first file
\* that cannot be parsed ends the loading: what was assigned before stays.
_load_indices(dir) ==
  IF ~dir.metadata.exists \/ dir.metadata.corrupt
  THEN [raised |-> FALSE, metadata |-> NoFile, file_index |-> NoFile, function_index |-> NoFile]
  ELSE IF dir.file_index.corrupt
  THEN [raised |-> FALSE, metadata |-> dir.metadata, file_index |-> NoFile,
        function_index |-> NoFile]
  ELSE [raised |-> FALSE, metadata |-> dir.metadata, file_index |-> dir.file_index,
        function_index |-> IF dir.function_index.corrupt THEN NoFile
                           ELSE dir.function_index]

NoSearcher == [constructed_at |-> "never", metadata |-> NoFile, file_index |-> NoFile,
               function_index |-> NoFile]
CodeSearcher(dir, at) ==
  [constructed_at |-> at, metadata |-> _load_indices(dir).metadata,
   file_index |-> _load_indices(dir).file_index,
   function_index |-> _load_indices(dir).function_index]

\* The chunk search() maps the 0-based position idx of the structure to:
\* typed_chunks[idx] if idx < len(typed_chunks), else no result.
NoChunk == [type |-> NoneValue, file_path |-> NoneValue, function_name |-> NoneValue,
            content |-> <<>>, start_line |-> 0, end_line |-> 0]
ChunkAtPosition(searcher, kind, idx) ==
  LET typed_chunks == OfKind(searcher.metadata.chunks, kind)
  IN  IF idx < Len(typed_chunks) THEN typed_chunks[idx + 1] ELSE NoChunk

\* ------------------------------------------------------------------ state
VARIABLES
  max_iterations,        \* Agent.max_iterations
  pc,                    \* where Agent.query is: idle, loop, dispatch, returned, raised
  iteration,             \* the loop variable of query
  conversation_history,  \* Agent.conversation_history
  tool_calls,            \* tool_calls of the response being dispatched
  tc_index,              \* position of the dispatch loop in tool_calls
  tool_results,          \* tool_results of the round being dispatched
  result,                \* the FinalAnswer query returned
  error,                 \* the exception query raised
  api_calls,             \* log: parameters of every chat.completions.create call
  dispatched,            \* log: every tool call the dispatch loop handled
  issued,                \* number of tool calls the language model has issued
  queries,               \* number of calls of query made on this Agent
  asked                  \* the question argument of the running or last call of query

agentVars == <<max_iterations, pc, iteration, conversation_history, tool_calls,
               tc_index, tool_results, result, error, api_calls, dispatched, issued,
              queries, asked>>

VARIABLES
  b_pc,                  \* where CodeIndexer.index is: idle, collecting, building, done, failed
  builds,                \* number of index() runs started
  files,                 \* files: the sorted list _get_supported_files returned
  pending,               \* files whose future has not been collected yet
  all_chunks,            \* all_chunks
  file_embeddings,       \* rows of file_embeddings_list, batch after batch
  function_embeddings,   \* rows of function_embeddings_list, batch after batch
  written,               \* kinds whose structure file this run has written
  disk,                  \* the output directory: file_index, function_index, metadata
  summary,               \* the record index() returned
  task_inputs,           \* log: what each file's task of this run read and extracted
  previous_run,          \* log: inputs and outputs of the last completed run before this one
  searcher,              \* the CodeSearcher constructed on the output directory since
                         \* the current run of index() began
  embed_calls            \* log: the calls of _get_embeddings this run made, in order

buildVars == <<b_pc, builds, files, pending, all_chunks, file_embeddings,
               function_embeddings, written, disk, summary, task_inputs, previous_run,
               searcher, embed_calls>>

\* The chunker applied to one file.
VARIABLES
  c_pc,                  \* "idle", "input" or "chunked"
  c_content,             \* the lines of the file
  c_functions,           \* the spans the extractor returned
  c_chunks               \* what _create_chunks returned

chunkVars == <<c_pc, c_content, c_functions, c_chunks>>

\* A CodeSearcher on an index directory and one call of search.
VARIABLES
  s_pc,                  \* "idle", "constructed", "returned" or "raised"
  s_dir,                 \* the index directory
  s_searcher,            \* the CodeSearcher constructed on it
  s_call,                \* the arguments of the last call of search
  s_embedded,            \* whether that call made the embedding request
  s_indices,             \* the positions index.search returned to that call
  s_results,             \* what that call returned
  s_listed,              \* the last call of list_file_content and what it returned
  _searcher,             \* the global of tools.py that set_searcher assigns
  t_call,                \* the last call of a tool function of the registry
  t_result               \* what that call returned, or that it raised

\* s_call .. s_listed and t_call, t_result describe the last operation only:
\* an operation clears what the operation before it left there.
searchVars == <<s_pc, s_dir, s_searcher, s_call, s_embedded, s_indices, s_results, s_listed,
                _searcher, t_call, t_result>>

\* The /query handler of main.py, one Agent per request.
VARIABLES
  h_pc,                  \* per request: "idle", "call", "dispatch" or "done"
  h_agent,               \* per request: the Agent its handler constructed
  h_tool_calls,          \* per request: the number of tool calls being dispatched
  h_iteration,           \* per request: the iteration of its Agent.query
  histories,             \* per Agent: its conversation_history
  h_sent                 \* per request: the histories its model calls sent

serveVars == <<h_pc, h_agent, h_tool_calls, h_iteration, histories, h_sent>>

\* The worker pool of CodeIndexer.index and its collecting loop.
VARIABLES
  w_pc,                  \* "idle", "collecting" or "collected"
  max_workers,           \* max_workers of the ThreadPoolExecutor
  w_files,               \* the files whose tasks were submitted
  w_queued,              \* submitted tasks no worker has started
  w_running,             \* tasks a worker is running
  w_futures,             \* per file: what its finished task returned
  w_tasks,               \* log, per file: what its task read and what the extractor gave
  w_yielded,             \* files whose future as_completed has yielded
  w_all_chunks           \* all_chunks of the collecting thread

poolVars == <<w_pc, max_workers, w_files, w_queued, w_running, w_futures, w_tasks,
              w_yielded, w_all_chunks>>

\* The /index handler of main.py and the Searcher shared with the tools.
VARIABLES
  i_pc,                  \* the server: "startup", then the handler: "idle", "indexing",
                         \* "built", "loading", "loaded"
  i_builds,              \* number of runs of index() the handler started
  i_disk,                \* the directory: the build whose complete index it holds, and
                         \* whether a run of index() is writing into it
  objects,               \* the CodeSearcher objects constructed so far
  i_searcher,            \* `searcher` of main.py: the object last constructed, 0 for None
  tools_searcher,        \* `_searcher` of tools.py: an object, 0 for None
  seen                   \* log: what the last tool call found behind _searcher

reloadVars == <<i_pc, i_builds, i_disk, objects, i_searcher, tools_searcher, seen>>

vars == <<agentVars, buildVars, chunkVars, searchVars, serveVars, poolVars, reloadVars>>
nonAgentVars == <<buildVars, chunkVars, searchVars, serveVars, poolVars, reloadVars>>
nonBuildVars == <<agentVars, chunkVars, searchVars, serveVars, poolVars, reloadVars>>
nonChunkVars == <<agentVars, buildVars, searchVars, serveVars, poolVars, reloadVars>>
nonSearchVars == <<agentVars, buildVars, chunkVars, serveVars, poolVars, reloadVars>>
nonServeVars == <<agentVars, buildVars, chunkVars, searchVars, poolVars, reloadVars>>
nonPoolVars == <<agentVars, buildVars, chunkVars, searchVars, serveVars, reloadVars>>
nonReloadVars == <<agentVars, buildVars, chunkVars, searchVars, serveVars, poolVars>>

NoCall == [question |-> <<>>, index_type |-> NoneValue, top_k |-> 0]
NoToolCall == [tool |-> NoneValue]
NoToolResult == [raised |-> FALSE, record |-> [success |-> NoneValue]]
NotListed == [called |-> FALSE, file_path |-> NoneValue, on_disk |-> <<>>,
              fs_read |-> FALSE, content |-> <<>>]
Requests == 1..MaxRequests

\* No tool call has looked at the shared Searcher.
NothingSeen == [called |-> FALSE, object |-> 0, stage |-> "none", returned |-> FALSE, build |-> 0]

ReloadIdle ==
  /\ i_pc = "startup"
  /\ i_builds = 0
  /\ i_disk = [build |-> 0, writing |-> FALSE]
  /\ objects = <<>>
  /\ i_searcher = 0
  /\ tools_searcher = 0
  /\ seen = NothingSeen

\* A future that has no result yet.
NoFuture == <<[unfinished |-> TRUE]>>

\* No task has run for the file: no content was read.
NoTask == [read |-> <<>>, extracted |-> <<>>]

PoolIdle ==
  /\ w_pc = "idle"
  /\ max_workers = 1
  /\ w_files = {}
  /\ w_queued = {}
  /\ w_running = {}
  /\ w_futures = [path \in FilePaths |-> NoFuture]
  /\ w_tasks = [path \in FilePaths |-> NoTask]
  /\ w_yielded = {}
  /\ w_all_chunks = <<>>

ServeIdle ==
  /\ h_pc = [r \in Requests |-> "idle"]
  /\ h_agent = [r \in Requests |-> NoneValue]
  /\ h_tool_calls = [r \in Requests |-> 0]
  /\ h_iteration = [r \in Requests |-> 0]
  /\ histories = [a \in Requests |-> <<>>]
  /\ h_sent = [r \in Requests |-> <<>>]

ChunkIdle == c_pc = "idle" /\ c_content = <<>> /\ c_functions = <<>> /\ c_chunks = <<>>
SearchIdle ==
  /\ s_pc = "idle" /\ s_dir = EmptyDir /\ s_searcher = NoSearcher
  /\ s_call = NoCall /\ s_embedded = FALSE /\ s_indices = <<>> /\ s_results = <<>>
  /\ s_listed = NotListed
  /\ _searcher = NoSearcher /\ t_call = NoToolCall /\ t_result = NoToolResult

NoError == [type |-> NoneValue, msg |-> NoneValue]
RuntimeError(msg) == [type |-> "RuntimeError", msg |-> msg]
\* FinalAnswer(**answer_data) with answer_data not a mapping
TypeError == [type |-> "TypeError", msg |-> "argument after ** must be a mapping"]
\* an exception that left the tool dispatch loop
ToolException == [type |-> "Exception", msg |-> "raised in tool dispatch"]

UserTurn(q) ==
  [role |-> "user", content |-> q, tool_calls |-> <<>>, tool_call_id |-> 0,
   name |-> NoneValue, payload |-> Payload("absent", NoneValue)]
AssistantTurn(content, tcs) ==
  [role |-> "assistant", content |-> content, tool_calls |-> tcs, tool_call_id |-> 0,
   name |-> NoneValue, payload |-> Payload("absent", NoneValue)]
ToolTurnWithoutId(id, name, payload) ==
  [role |-> "tool", content |-> NoneValue, tool_calls |-> <<>>, tool_call_id |-> 0,
   name |-> name, payload |-> payload]
\* content of a tool turn is json.dumps(payload)
ToolTurn(id, name, payload) ==
  [role |-> "tool", content |-> NoneValue, tool_calls |-> <<>>, tool_call_id |-> id,
   name |-> name, payload |-> payload]

Questions == {"where is the agent loop?"}

\* for iteration in range(self.max_iterations)
InRange(i) == i < max_iterations

is_final_round_never(i) == FALSE
is_final_round_late(i) == i = max_iterations
is_final_round(i) == i = max_iterations - 1

\* The three ways query hands control back.
Return(fa) == [pc |-> "returned", result |-> fa, error |-> NoError]
Raise(e) == [pc |-> "raised", result |-> NoAnswer, error |-> e]
NextRound == [pc |-> "loop", result |-> NoAnswer, error |-> NoError]

FallbackAnswerLow(content) ==
  [answer |-> content, confidence |-> "low", sources |-> <<>>,
   reasoning |-> "Structured output parsing failed, using raw content"]
FallbackAnswer(content) ==
  [answer |-> IF Truthy(content) THEN content ELSE "No answer provided",
   confidence |-> "medium", sources |-> <<>>,
   reasoning |-> "Structured output parsing failed, using raw content"]

EarlyExitAnswerMedium(content) ==
  [answer |-> content, confidence |-> "medium", sources |-> <<>>,
   reasoning |-> "Agent provided answer without using tools"]
EarlyExitAnswer(content) ==
  [answer |-> content, confidence |-> "high", sources |-> <<>>,
   reasoning |-> "Agent provided answer without using tools"]

FinalRoundOutcomeFallthrough(content) ==
  IF Truthy(content)
  THEN LET answer_data == json_loads(content)
       IN  CASE answer_data.ty = "JSONDecodeError" -> Return(FallbackAnswer(content))
             [] answer_data.ty = "object" ->
                  IF FinalAnswerValid(answer_data.members)
                  THEN Return(FinalAnswerOf(answer_data.members))
                  ELSE Raise(RuntimeError("Failed to validate structured output"))
             [] OTHER -> Raise(TypeError)
  ELSE NextRound

\* if is_final_round: parse the structured output
FinalRoundOutcome(content) ==
  IF Truthy(content)
  THEN LET answer_data == json_loads(content)
       IN  CASE answer_data.ty = "JSONDecodeError" -> Return(FallbackAnswer(content))
             [] answer_data.ty = "object" ->
                  IF FinalAnswerValid(answer_data.members)
                  THEN Return(FinalAnswerOf(answer_data.members))
                  ELSE Raise(RuntimeError("Failed to validate structured output"))
             [] OTHER -> Raise(TypeError)
  ELSE Raise(RuntimeError("No content in final response"))

\* else: no tool calls but not final round
EarlyExitOutcome(content) ==
  IF Truthy(content) THEN Return(EarlyExitAnswer(content)) ELSE NextRound

\* One pass of the dispatch loop body for tool call tc.
DispatchResultAbort(tc, outcome) ==
  LET arguments == json_loads(tc.arguments)
  IN  IF arguments.ty = "JSONDecodeError" THEN Raised
      ELSE _execute_tool(tc.name, arguments, outcome)
DispatchResult(tc, outcome) ==
  LET arguments == json_loads(tc.arguments)
  IN  IF arguments.ty = "JSONDecodeError"
      THEN Payload("absent", "Invalid JSON arguments")
      ELSE _execute_tool(tc.name, arguments, outcome)

\* ---------------------------------------------------------------- actions
\* An Agent after construction, before any query.
AgentInit(iterations) ==
  /\ max_iterations \in iterations
  /\ pc = "idle"
  /\ iteration = 0
  /\ conversation_history = <<>>
  /\ tool_calls = <<>>
  /\ tc_index = 0
  /\ tool_results = <<>>
  /\ result = NoAnswer
  /\ error = NoError
  /\ api_calls = <<>>
  /\ dispatched = <<>>
  /\ issued = 0
  /\ queries = 0
  /\ asked = NoneValue

\* No build has run: the output directory does not hold an index.
BuildInit ==
  /\ b_pc = "idle"
  /\ builds = 0
  /\ files = <<>>
  /\ pending = {}
  /\ all_chunks = <<>>
  /\ file_embeddings = <<>>
  /\ function_embeddings = <<>>
  /\ written = {}
  /\ disk = EmptyDir
  /\ summary = NoSummary
  /\ task_inputs = {}
  /\ previous_run = NoRun
  /\ searcher = NoSearcher
  /\ embed_calls = <<>>

Init == AgentInit({-1} \cup (0..MaxIterations)) /\ BuildInit /\ ChunkIdle /\ SearchIdle /\ ServeIdle /\ PoolIdle /\ ReloadIdle

\* query(question) up to the loop: reset the history, add the user turn.
\* self.conversation_history = [] and the append of the user question; a
\* query that keeps the turns of the query before it.
NewHistoryKeeping(history, q) == Append(history, UserTurn(q))
NewHistory(history, q) == <<UserTurn(q)>>

StartQuery ==
  /\ pc = "idle"
  /\ \E q \in Questions :
       /\ conversation_history' = NewHistory(conversation_history, q)
       /\ asked' = q
  /\ queries' = queries + 1
  /\ iteration' = 0
  /\ pc' = "loop"
  /\ UNCHANGED <<max_iterations, tool_calls, tc_index, tool_results, result, error,
                 api_calls, dispatched, issued>>
  /\ UNCHANGED nonAgentVars

\* One round up to the tool dispatch: the model call, the assistant turn, and
\* the branch taken on the response.
ApiParams(i) ==
  [iteration |-> i, tools |-> ~is_final_round(i), response_format |-> is_final_round(i),
   messages |-> 1 + Len(conversation_history)]

\* An entry of the log of model calls: the parameters, and whether the call raised.
ApiCall(params, raised) ==
  [iteration |-> params.iteration, tools |-> params.tools,
   response_format |-> params.response_format, messages |-> params.messages,
   raised |-> raised]

\* The failure of the API call is swallowed and the loop tries the call again.
ApiFailureOutcomeRetry == NextRound

\* except Exception as e: raise RuntimeError(f"OpenAI API call failed: ...")
ApiFailureOutcome == Raise(RuntimeError("OpenAI API call failed"))

ModelCallFails ==
  /\ pc = "loop" /\ InRange(iteration)
  /\ api_calls' = Append(api_calls, ApiCall(ApiParams(iteration), TRUE))
  /\ pc' = ApiFailureOutcome.pc
  /\ result' = ApiFailureOutcome.result
  /\ error' = ApiFailureOutcome.error
  /\ UNCHANGED <<max_iterations, queries, asked, iteration, conversation_history, tool_calls, tc_index,
                 tool_results, dispatched, issued>>
  /\ UNCHANGED nonAgentVars

ModelCall ==
  /\ pc = "loop" /\ InRange(iteration)
  /\ api_calls' = Append(api_calls, ApiCall(ApiParams(iteration), FALSE))
  /\ \E content \in Contents, calls \in CallSeqs(MaxToolCalls - issued) :
       /\ calls # <<>> => content \in CallContents
       /\ LET tcs == [k \in 1..Len(calls) |->
                        [id |-> issued + k, name |-> calls[k].name,
                         arguments |-> calls[k].arguments]]
          IN  /\ conversation_history' = Append(conversation_history, AssistantTurn(content, tcs))
              /\ issued' = issued + Len(tcs)
              /\ IF tcs # <<>> /\ ~is_final_round(iteration)
                 THEN /\ pc' = "dispatch"
                      /\ tool_calls' = tcs
                      /\ tc_index' = 1
                      /\ tool_results' = <<>>
                      /\ UNCHANGED <<iteration, result, error>>
                 ELSE LET o == IF is_final_round(iteration)
                               THEN FinalRoundOutcome(content)
                               ELSE EarlyExitOutcome(content)
                      IN  /\ pc' = o.pc
                          /\ result' = o.result
                          /\ error' = o.error
                          /\ iteration' = IF o.pc = "loop" THEN iteration + 1 ELSE iteration
                          /\ UNCHANGED <<tool_calls, tc_index, tool_results>>
  /\ UNCHANGED <<max_iterations, queries, asked, dispatched>>
  /\ UNCHANGED nonAgentVars

\* One pass of `for tool_call in tool_calls`; the last pass also extends the
\* history with tool_results and continues with the next iteration.
DispatchTool ==
  /\ pc = "dispatch" /\ tc_index <= Len(tool_calls)
  /\ \E outcome \in ToolOutcomes :
       LET tc == tool_calls[tc_index]
           r == DispatchResult(tc, outcome)
           ran == LET a == json_loads(tc.arguments)
                  IN  a.ty # "JSONDecodeError" /\ BodyRuns(tc.name, a)
       IN  /\ dispatched' = Append(dispatched,
                 [iteration |-> iteration, k |-> tc_index, id |-> tc.id, name |-> tc.name,
                  arguments |-> tc.arguments, ran |-> ran,
                  outcome |-> IF ran THEN outcome ELSE NoneValue])
           /\ IF r.raised
              THEN /\ pc' = "raised"
                   /\ error' = ToolException
                   /\ UNCHANGED <<iteration, conversation_history, tool_results, tc_index>>
              ELSE /\ tool_results' = Append(tool_results, ToolTurn(tc.id, tc.name, r))
                   /\ tc_index' = tc_index + 1
                   /\ error' = error
                   /\ IF tc_index = Len(tool_calls)
                      THEN /\ conversation_history' = conversation_history \o tool_results'
                           /\ iteration' = iteration + 1
                           /\ pc' = "loop"
                      ELSE UNCHANGED <<conversation_history, iteration, pc>>
  /\ UNCHANGED <<max_iterations, queries, asked, tool_calls, result, api_calls, issued>>
  /\ UNCHANGED nonAgentVars

\* The loop ran out of iterations.
Exhausted ==
  /\ pc = "loop" /\ ~InRange(iteration)
  /\ pc' = "raised"
  /\ error' = RuntimeError("Max iterations reached without final answer")
  /\ UNCHANGED <<max_iterations, queries, asked, iteration, conversation_history, tool_calls, tc_index,
                 tool_results, result, api_calls, dispatched, issued>>
  /\ UNCHANGED nonAgentVars

\* query is called again on an Agent whose earlier query returned or raised.
FollowUpQuestions == {"and where are the tools?"}
StartNextQuery ==
  /\ pc \in {"returned", "raised"}
  /\ queries < MaxQueries
  /\ \E q \in FollowUpQuestions :
       /\ conversation_history' = NewHistory(conversation_history, q)
       /\ asked' = q
  /\ queries' = queries + 1
  /\ iteration' = 0
  /\ pc' = "loop"
  /\ tool_calls' = <<>> /\ tc_index' = 0 /\ tool_results' = <<>>
  /\ result' = NoAnswer /\ error' = NoError
  /\ api_calls' = <<>> /\ dispatched' = <<>> /\ issued' = 0
  /\ UNCHANGED max_iterations
  /\ UNCHANGED nonAgentVars

Next ==
  \/ StartQuery
  \/ ModelCallFails
  \/ ModelCall
  \/ DispatchTool
  \/ Exhausted

Spec == Init /\ [][Next]_vars

\* One Agent used for several queries, one after the other.
RequeryInit ==
  AgentInit(1..MaxRequeryIterations) /\ BuildInit /\ ChunkIdle /\ SearchIdle /\ ServeIdle /\ PoolIdle /\ ReloadIdle
RequeryNext ==
  \/ StartQuery
  \/ StartNextQuery
  \/ ModelCallFails
  \/ ModelCall
  \/ DispatchTool
RequerySpec == RequeryInit /\ [][RequeryNext]_vars

\* ------------------------------------------------ reading the history
Ended == pc \in {"returned", "raised"}
Confidences == {"high", "medium", "low"}

AssistantPositions ==
  {p \in 1..Len(conversation_history) : conversation_history[p].role = "assistant"}

\* Position in the history of the assistant turn of round r (rounds from 0).
RoundPos(r) ==
  CHOOSE p \in AssistantPositions : Cardinality({q \in AssistantPositions : q < p}) = r

LastTurn == conversation_history[Len(conversation_history)]

\* The model has answered in the final round: all max_iterations calls were
\* made and each of them produced an assistant turn.  The final round's
\* response is then the last turn of the history.
FinalResponded ==
  /\ max_iterations >= 1
  /\ Len(api_calls) = max_iterations
  /\ Cardinality(AssistantPositions) = max_iterations

\* Tool-result turns the current state holds: those in the history and those
\* of the round being dispatched.
ToolTurns ==
  LET all == conversation_history \o (IF pc = "dispatch" THEN tool_results ELSE <<>>)
  IN  {<<p, all[p]>> : p \in {q \in 1..Len(all) : all[q].role = "tool"}}

TurnsOfCall(id) == {t \in ToolTurns : t[2].tool_call_id = id}

\* Is the dispatch of round r over?
RoundOver(r) == iteration > r \/ Ended

\* ----------------------------------------------------------- properties

\* C1: bounded rounds.  For max_iterations = N >= 1 the query makes at most N
\* model calls, none of them in a round >= N; the loop is never left by
\* exhaustion (round N is never reached), and once the N-th call has been made
\* the query has ended by returning or raising.
C1_BoundedRounds ==
  max_iterations >= 1 =>
    /\ Len(api_calls) <= max_iterations
    /\ \A j \in 1..Len(api_calls) : api_calls[j].iteration <= max_iterations - 1
    /\ iteration <= max_iterations - 1
    /\ Len(api_calls) = max_iterations => Ended

C1_Witness ==
  /\ max_iterations >= 2
  /\ Len(api_calls) = max_iterations
  /\ Len(dispatched) >= 1
  /\ pc = "returned"

\* C2: final-round enforcement.  The model call of round N-1 carries no tool
\* set, and no tool call is dispatched in round N-1, also when the response of
\* that round contains tool calls.
C2_FinalRoundNoTools ==
  /\ \A j \in 1..Len(api_calls) :
       api_calls[j].iteration = max_iterations - 1 => ~api_calls[j].tools
  /\ \A j \in 1..Len(dispatched) : dispatched[j].iteration # max_iterations - 1
  /\ pc = "dispatch" => iteration # max_iterations - 1

C2_Witness ==
  /\ FinalResponded
  /\ LastTurn.role = "assistant"
  /\ LastTurn.tool_calls # <<>>
  /\ Ended

\* C3: early exit.  A response of a non-final round with non-empty text and no
\* tool calls ends the query in that round: it is the last turn, the query has
\* returned a FinalAnswer with that text, confidence high and no sources, and
\* no model call or dispatch of a later round exists.
C3_EarlyExit ==
  \A r \in 0..(max_iterations - 2) :
    (r < Cardinality(AssistantPositions)
       /\ conversation_history[RoundPos(r)].tool_calls = <<>>
       /\ conversation_history[RoundPos(r)].content \notin {NoneValue, ""})
    => /\ pc = "returned"
       /\ result.answer = conversation_history[RoundPos(r)].content
       /\ result.confidence = "high"
       /\ result.sources = <<>>
       /\ RoundPos(r) = Len(conversation_history)
       /\ Len(api_calls) = r + 1
       /\ \A j \in 1..Len(dispatched) : dispatched[j].iteration < r

C3_Witness ==
  /\ pc = "returned"
  /\ max_iterations >= 3
  /\ iteration = 1
  /\ LastTurn.content = TextAnswer
  /\ LastTurn.tool_calls = <<>>
  /\ result.confidence = "high"

\* C4: degradation.  A final-round response whose content is non-empty and not
\* valid JSON makes the query return (not raise) a FinalAnswer with confidence
\* medium, the raw content as answer, no sources and a reasoning note.
C4_Degradation ==
  (FinalResponded /\ LastTurn.content \notin {NoneValue, ""}
     /\ json_loads(LastTurn.content).ty = "JSONDecodeError")
  => /\ pc = "returned"
     /\ error = NoError
     /\ result.confidence = "medium"
     /\ result.answer = LastTurn.content
     /\ result.sources = <<>>
     /\ result.reasoning # NoneValue

C4_Witness ==
  /\ FinalResponded
  /\ LastTurn.content = TextAnswer
  /\ pc = "returned"
  /\ result.confidence = "medium"

\* Does a parsed JSON value conform to the FinalAnswer schema?
ConformsToSchema(v) ==
  /\ v.ty = "object"
  /\ "answer" \in DOMAIN v.members /\ v.members["answer"].ty = "string"
  /\ "confidence" \in DOMAIN v.members /\ v.members["confidence"].ty = "string"
  /\ v.members["confidence"].s \in Confidences
  /\ "sources" \in DOMAIN v.members =>
        /\ v.members["sources"].ty = "array"
        /\ \A i \in 1..Len(v.members["sources"].items) :
              v.members["sources"].items[i].ty = "string"
  /\ "reasoning" \in DOMAIN v.members => v.members["reasoning"].ty \in {"string", "null"}

\* C5: final-round schema violation.  A final-round content that parses as
\* JSON but does not conform to the FinalAnswer schema (a JSON value that is not
\* an object included) ends the query in FAILED with the validation failure
\* "Failed to validate structured output", and no FinalAnswer is returned.
C5_SchemaViolationIsValidationFailure ==
  (FinalResponded /\ LastTurn.content \notin {NoneValue, ""}
     /\ json_loads(LastTurn.content).ty # "JSONDecodeError"
     /\ ~ConformsToSchema(json_loads(LastTurn.content)))
  => /\ pc = "raised"
     /\ result = NoAnswer
     /\ error = RuntimeError("Failed to validate structured output")

\* C6: a final-round response with no content (absent or empty) ends the query
\* in FAILED: it raises and returns no FinalAnswer.
C6_NoContentFails ==
  (FinalResponded /\ LastTurn.content \in {NoneValue, ""})
  => /\ pc = "raised"
     /\ result = NoAnswer
     /\ error.type # NoneValue

C6_Witness ==
  /\ FinalResponded
  /\ LastTurn.content = ""
  /\ pc = "raised"
  /\ error = RuntimeError("No content in final response")

\* C7: tool isolation.  When a tool body raised during dispatch, no exception
\* leaves the dispatch loop; the tool-result turn of exactly that call carries
\* the error payload (success = false); every other call of the round has its
\* own turn, a sibling whose body returned success keeps success = true; and
\* once the round is over all its calls were dispatched, all their turns are
\* in the history and the loop is in a later round.
C7_ToolIsolation ==
  /\ error.type # "Exception"
  /\ \A j \in 1..Len(dispatched) :
       (dispatched[j].ran /\ dispatched[j].outcome = "raise") =>
         LET d == dispatched[j]
             calls == conversation_history[RoundPos(d.iteration)].tool_calls
         IN  /\ \E t \in TurnsOfCall(d.id) :
                  /\ TurnsOfCall(d.id) = {t}
                  /\ t[2].payload.success = "false"
                  /\ t[2].payload.error # NoneValue
             /\ \A i \in 1..Len(dispatched) :
                  (i # j /\ dispatched[i].iteration = d.iteration) =>
                     /\ Cardinality(TurnsOfCall(dispatched[i].id)) = 1
                     /\ (dispatched[i].ran /\ dispatched[i].outcome = "ok") =>
                          \A t \in TurnsOfCall(dispatched[i].id) :
                             t[2].payload.success = "true" /\ t[2].payload.error = NoneValue
             /\ RoundOver(d.iteration) =>
                  /\ iteration > d.iteration
                  /\ \A k \in 1..Len(calls) :
                       /\ \E i \in 1..Len(dispatched) : dispatched[i].id = calls[k].id
                       /\ conversation_history[RoundPos(d.iteration) + k].role = "tool"
                       /\ conversation_history[RoundPos(d.iteration) + k].tool_call_id = calls[k].id

C7_Witness ==
  \E j, i \in 1..Len(dispatched) :
    /\ dispatched[j].ran /\ dispatched[j].outcome = "raise"
    /\ dispatched[i].iteration = dispatched[j].iteration
    /\ i > j
    /\ dispatched[i].ran /\ dispatched[i].outcome = "ok"
    /\ Len(api_calls) = dispatched[j].iteration + 2

\* C8: every tool call of a non-final round gets a tool-result turn and never
\* moves the query to FAILED; a call with a malformed argument string, an
\* argument string that is not a JSON object, an unknown tool name or
\* unexpected arguments gets an error payload.
C8_BadCallsGetErrorPayload ==
  /\ pc = "raised" => error.type \in {"RuntimeError", "TypeError"}
  /\ \A j \in 1..Len(dispatched) :
       LET d == dispatched[j]
       IN  /\ Cardinality(TurnsOfCall(d.id)) = 1
           /\ (d.arguments \in {ArgsTruncated, ArgsArray, ArgsWrongKey} \/ d.name \notin ToolNames) =>
                \A t \in TurnsOfCall(d.id) :
                   /\ t[2].payload.success # "true"
                   /\ t[2].payload.error # NoneValue
                   /\ t[2].name = d.name

C8_Witness ==
  /\ Len(api_calls) = 2
  /\ \E j, i \in 1..Len(dispatched) :
       /\ dispatched[j].arguments = ArgsTruncated
       /\ dispatched[i].name = "rm"
       /\ dispatched[i].iteration = dispatched[j].iteration

\* C9: every FinalAnswer the query returns has a confidence that is exactly
\* high, medium or low, and a final-round payload whose confidence is any other
\* value is rejected: the query raises and returns nothing.
C9_ConfidenceLiteral ==
  /\ pc = "returned" => result.confidence \in Confidences
  /\ (FinalResponded /\ LastTurn.content \notin {NoneValue, ""}
        /\ json_loads(LastTurn.content).ty = "object"
        /\ "confidence" \in DOMAIN json_loads(LastTurn.content).members
        /\ ~(/\ json_loads(LastTurn.content).members["confidence"].ty = "string"
             /\ json_loads(LastTurn.content).members["confidence"].s \in Confidences))
     => pc = "raised" /\ result = NoAnswer

C9_Witness ==
  /\ FinalResponded
  /\ LastTurn.content = JsonBadConfidence
  /\ pc = "raised"
  /\ error = RuntimeError("Failed to validate structured output")

\* ------------------------------------------------------- index builder
\* The builder runs next to an Agent that is not used.
BuildSpecInit == AgentInit({1}) /\ BuildInit /\ ChunkIdle /\ SearchIdle /\ ServeIdle /\ PoolIdle /\ ReloadIdle

FileChunks == OfKind(all_chunks, "file")
FunctionChunks == OfKind(all_chunks, "function")
\* The value of i in `for i in range(0, len(contents), batch_size)`: the
\* number of texts the calls made so far for the kind have sent.
RECURSIVE TextsSentIn(_, _)
TextsSentIn(calls, kind) ==
  IF calls = <<>> THEN 0
  ELSE (IF Head(calls).kind = kind THEN Len(Head(calls).texts) ELSE 0)
       + TextsSentIn(Tail(calls), kind)
TextsSent(kind) == TextsSentIn(embed_calls, kind)
EmbeddingsDone ==
  /\ TextsSent("file") = Len(FileChunks)
  /\ TextsSent("function") = Len(FunctionChunks)

\* The index files are written after both embedding loops have finished.
WritesMayStartAfterFiles == Len(file_embeddings) = Len(FileChunks)
WritesMayStart == EmbeddingsDone

\* index() up to the submission of the tasks: a codebase is scanned and one
\* task per file is submitted.
StartBuild ==
  /\ b_pc \in {"idle", "done", "failed"}
  /\ builds < MaxBuilds
  /\ \E codebase \in SUBSET FilePaths :
       /\ files' = SortedPaths(codebase)
       /\ pending' = codebase
       /\ b_pc' = IF codebase = {} THEN "building" ELSE "collecting"
  /\ builds' = builds + 1
  /\ all_chunks' = <<>>
  /\ file_embeddings' = <<>>
  /\ function_embeddings' = <<>>
  /\ written' = {}
  /\ summary' = NoSummary
  /\ task_inputs' = {}
  /\ previous_run' = IF b_pc = "done"
                     THEN [valid |-> TRUE, files |-> files, inputs |-> task_inputs,
                           chunks |-> all_chunks, file_vectors |-> file_embeddings,
                           function_vectors |-> function_embeddings]
                     ELSE previous_run
  /\ searcher' = NoSearcher
  /\ embed_calls' = <<>>
  /\ UNCHANGED disk
  /\ UNCHANGED nonBuildVars

\* as_completed yields the future of some file: its worker has run
\* _process_single_file, and the collecting loop extends all_chunks.
CompleteTask ==
  /\ b_pc = "collecting"
  /\ \E path \in pending : \E read \in ReadOutcomes(path) :
     \E extracted \in ExtractorOutcomesFor(read) :
       /\ all_chunks' = Collected(all_chunks, _process_single_file(path, read, extracted))
       /\ task_inputs' = task_inputs \cup
                           {[path |-> path, read |-> read, extracted |-> extracted]}
       /\ pending' = pending \ {path}
       /\ b_pc' = IF pending' = {} THEN "building" ELSE "collecting"
  /\ UNCHANGED <<builds, files, file_embeddings, function_embeddings, written, disk, summary,
                 previous_run, searcher, embed_calls>>
  /\ UNCHANGED nonBuildVars

\* One embedding batch: file chunks first, then function chunks.
EmbedBatch ==
  /\ b_pc = "building" /\ ~EmbeddingsDone
  /\ IF TextsSent("file") < Len(FileChunks)
     THEN LET batch == NextBatch(Contents_(FileChunks), TextsSent("file"))
              rows == _get_embeddings(batch)
          IN  /\ file_embeddings' = file_embeddings \o rows
              /\ embed_calls' = Append(embed_calls, EmbedCall("file", batch, Len(rows)))
              /\ UNCHANGED function_embeddings
     ELSE LET batch == NextBatch(Contents_(FunctionChunks), TextsSent("function"))
              rows == _get_embeddings(batch)
          IN  /\ function_embeddings' = function_embeddings \o rows
              /\ embed_calls' = Append(embed_calls, EmbedCall("function", batch, Len(rows)))
              /\ UNCHANGED file_embeddings
  /\ UNCHANGED <<b_pc, builds, files, pending, all_chunks, written, disk, summary,
                 task_inputs, previous_run, searcher>>
  /\ UNCHANGED nonBuildVars

\* One embedding batch whose response holds fewer vectors than texts were
\* sent: _get_embeddings returns the rows it got and the loop goes on.
EmbedBatchMismatch ==
  /\ b_pc = "building" /\ ~EmbeddingsDone
  /\ IF TextsSent("file") < Len(FileChunks)
     THEN LET batch == NextBatch(Contents_(FileChunks), TextsSent("file"))
              rows == ShortResponse(batch)
          IN  /\ Len(batch) >= 2
              /\ file_embeddings' = file_embeddings \o rows
              /\ embed_calls' = Append(embed_calls, EmbedCall("file", batch, Len(rows)))
              /\ UNCHANGED function_embeddings
     ELSE LET batch == NextBatch(Contents_(FunctionChunks), TextsSent("function"))
              rows == ShortResponse(batch)
          IN  /\ Len(batch) >= 2
              /\ function_embeddings' = function_embeddings \o rows
              /\ embed_calls' = Append(embed_calls, EmbedCall("function", batch, Len(rows)))
              /\ UNCHANGED file_embeddings
  /\ UNCHANGED <<b_pc, builds, files, pending, all_chunks, written, disk, summary,
                 task_inputs, previous_run, searcher>>
  /\ UNCHANGED nonBuildVars

\* The embedding call of a batch raises: index() propagates it.
EmbedBatchFails ==
  /\ b_pc = "building" /\ ~EmbeddingsDone
  /\ b_pc' = "failed"
  /\ UNCHANGED <<builds, files, pending, all_chunks, file_embeddings, function_embeddings,
                 written, disk, summary, task_inputs, previous_run, searcher, embed_calls>>
  /\ UNCHANGED nonBuildVars

\* if len(file_embeddings) > 0: faiss.write_index(file_index, ...)
WriteFileIndex ==
  /\ b_pc = "building" /\ WritesMayStart
  /\ "file" \notin written
  /\ Len(file_embeddings) > 0
  /\ disk' = [disk EXCEPT !.file_index = IndexFile(builds, file_embeddings)]
  /\ written' = written \cup {"file"}
  /\ UNCHANGED <<b_pc, builds, files, pending, all_chunks, file_embeddings,
                 function_embeddings, summary, task_inputs, previous_run, searcher, embed_calls>>
  /\ UNCHANGED nonBuildVars

\* if len(function_embeddings) > 0: faiss.write_index(function_index, ...)
WriteFunctionIndex ==
  /\ b_pc = "building" /\ WritesMayStart
  /\ "file" \in written \/ Len(file_embeddings) = 0
  /\ "function" \notin written
  /\ Len(function_embeddings) > 0
  /\ disk' = [disk EXCEPT !.function_index = IndexFile(builds, function_embeddings)]
  /\ written' = written \cup {"function"}
  /\ UNCHANGED <<b_pc, builds, files, pending, all_chunks, file_embeddings,
                 function_embeddings, summary, task_inputs, previous_run, searcher, embed_calls>>
  /\ UNCHANGED nonBuildVars

\* The metadata is written before the structure files.
MetadataMayBeWrittenFirst == TRUE

\* The metadata is saved after the two `if len(...) > 0` blocks that write the
\* structure files.
MetadataMayBeWritten ==
  /\ "file" \in written \/ Len(file_embeddings) = 0
  /\ "function" \in written \/ Len(function_embeddings) = 0

\* json.dump(metadata, ...) and the return of the summary.
WriteMetadata ==
  /\ b_pc = "building" /\ WritesMayStart
  /\ MetadataMayBeWritten
  /\ disk' = [disk EXCEPT !.metadata = MetadataFile(builds, all_chunks)]
  /\ summary' = [status |-> "success", total_files |-> Len(files),
                 total_chunks |-> Len(all_chunks), file_chunks |-> Len(FileChunks),
                 function_chunks |-> Len(FunctionChunks)]
  /\ b_pc' = "done"
  /\ UNCHANGED <<builds, files, pending, all_chunks, file_embeddings, function_embeddings,
                 written, task_inputs, previous_run, searcher, embed_calls>>
  /\ UNCHANGED nonBuildVars

\* CodeSearcher(index_dir=output_dir) is constructed, at any moment.
LoadSearcher ==
  /\ builds >= 1
  /\ searcher' = CodeSearcher(disk, b_pc)
  /\ UNCHANGED <<b_pc, builds, files, pending, all_chunks, file_embeddings,
                 function_embeddings, written, disk, summary, task_inputs, previous_run, embed_calls>>
  /\ UNCHANGED nonBuildVars

BuildNext ==
  \/ StartBuild
  \/ CompleteTask
  \/ EmbedBatch
  \/ EmbedBatchFails
  \/ WriteFileIndex
  \/ WriteFunctionIndex
  \/ WriteMetadata
  \/ LoadSearcher

BuildSpec == BuildSpecInit /\ [][BuildNext]_vars

\* The builder with an embeddings service that may return fewer vectors than
\* texts it was sent.
MismatchInit == AgentInit({1}) /\ BuildInit /\ ChunkIdle /\ SearchIdle /\ ServeIdle /\ PoolIdle /\ ReloadIdle
MismatchNext ==
  \/ StartBuild
  \/ CompleteTask
  \/ EmbedBatch
  \/ EmbedBatchMismatch
  \/ EmbedBatchFails
  \/ WriteFileIndex
  \/ WriteFunctionIndex
  \/ WriteMetadata
MismatchSpec == MismatchInit /\ [][MismatchNext]_vars

Kinds == {"file", "function"}
StructureOnDisk(kind) == IF kind = "file" THEN disk.file_index ELSE disk.function_index

\* Position i of the structure of a kind in the output directory is aligned.
AlignedAt(kind, i) ==
  LET typed == OfKind(disk.metadata.chunks, kind)
  IN  /\ i <= Len(typed)
      /\ StructureOnDisk(kind).vectors[i] = Embed(typed[i].content)
      /\ ChunkAtPosition(_load_indices(disk), kind, i - 1) = typed[i]

\* C10: alignment.  After a completed build, for each kind K and every
\* position i of K's nearest-neighbour structure in the output directory, the
\* i-th vector is the embedding of the i-th chunk of kind K of the persisted
\* metadata, and that chunk is what a Searcher loaded from the directory
\* returns for position i.
C10_Alignment ==
  b_pc = "done" =>
    \A kind \in Kinds :
      StructureOnDisk(kind).exists =>
        \A i \in 1..Len(StructureOnDisk(kind).vectors) : AlignedAt(kind, i)

\* The same for the structures the completed build wrote itself.
AlignmentOfWrittenStructures ==
  b_pc = "done" =>
    \A kind \in written :
      /\ Len(StructureOnDisk(kind).vectors) = Len(OfKind(disk.metadata.chunks, kind))
      /\ \A i \in 1..Len(StructureOnDisk(kind).vectors) : AlignedAt(kind, i)

\* ---- The runs of index() compared and inspected ----

\* The chunks a run collected for one file.
ChunksOf(path) == SelectSeq(all_chunks, LAMBDA c : c.file_path = path)
TaskPaths == {t.path : t \in task_inputs}
PathsOf(paths) == {paths[i] : i \in 1..Len(paths)}
WellFormed(spans) == \A k \in 1..Len(spans) : SpanHasKeys(spans[k])

\* C11: two completed builds over the same files, whose tasks read and
\* extracted the same, have the same per-kind chunk order in the metadata and
\* the same vector order in the nearest-neighbour structures, whatever order
\* the workers completed in.
C11_ReproducibleOrder ==
  (/\ b_pc = "done"
   /\ previous_run.valid
   /\ files = previous_run.files
   /\ task_inputs = previous_run.inputs) =>
    /\ \A kind \in Kinds :
         OfKind(disk.metadata.chunks, kind) = OfKind(previous_run.chunks, kind)
    /\ file_embeddings = previous_run.file_vectors
    /\ function_embeddings = previous_run.function_vectors

\* C12: a Searcher constructed on the output directory while a build into it
\* is running never holds metadata and structures of different builds, nor a
\* part of an index (metadata that lists chunks of a kind whose structure of
\* the same build is not loaded).
C12_NoMixedLoad ==
  (searcher.constructed_at \in {"collecting", "building"} /\ searcher.metadata.exists) =>
    \A kind \in Kinds :
      LET structure == IF kind = "file" THEN searcher.file_index
                       ELSE searcher.function_index
      IN  /\ structure.exists => structure.build = searcher.metadata.build
          /\ OfKind(searcher.metadata.chunks, kind) # <<>> => structure.exists

\* C13: a build in which an embedding batch call failed has returned no
\* summary and has written no structure file and no metadata file.
C13_FailedBuildWritesNothing ==
  b_pc = "failed" =>
    /\ summary = NoSummary
    /\ written = {}
    /\ \A f \in {disk.file_index, disk.function_index, disk.metadata} :
         ~(f.exists /\ f.build = builds)

\* A batch of function chunks fails after the file batches succeeded.
C13_Witness ==
  /\ b_pc = "failed"
  /\ Len(file_embeddings) > 0
  /\ Len(file_embeddings) = Len(OfKind(all_chunks, "file"))
  /\ Len(function_embeddings) < Len(OfKind(all_chunks, "function"))

\* C14: single-file failure policy.  An unreadable file contributes no chunk;
\* a file whose function extraction fails contributes exactly its file-level
\* chunk; every file with a well-formed extraction contributes its file-level
\* chunk and one chunk per span whatever happened to the other files; and the
\* build goes on to the embedding stage with every file processed (it fails
\* only there).
C14_SingleFileFailurePolicy ==
  /\ \A t \in task_inputs :
       /\ t.read = Unreadable => ChunksOf(t.path) = <<>>
       /\ (t.read = SmallContent(t.path) /\ t.extracted = ParseFailed) =>
            ChunksOf(t.path) = <<FileChunk(t.path, t.read)>>
       /\ (t.read = SmallContent(t.path) /\ t.extracted # ParseFailed
             /\ WellFormed(t.extracted)) =>
            /\ Len(ChunksOf(t.path)) = 1 + Len(t.extracted)
            /\ ChunksOf(t.path)[1] = FileChunk(t.path, t.read)
  /\ b_pc \in {"building", "done", "failed"} => TaskPaths = PathsOf(files)

\* A build completed over an unreadable file and a file whose extraction
\* failed: one chunk in all.
C14_Witness ==
  /\ b_pc = "done"
  /\ \E t1, t2 \in task_inputs :
       /\ t1.read = Unreadable
       /\ t2.read = SmallContent(t2.path) /\ t2.extracted = ParseFailed
  /\ Len(all_chunks) = 1
  /\ summary.total_files = 2

\* C15: for every readable file, the chunks a build collected contain the
\* file's file-level chunk, whatever the extractor did for it.
C15_FileChunkNeverLost ==
  \A t \in task_inputs :
    t.read # Unreadable =>
      \E i \in 1..Len(all_chunks) : all_chunks[i] = FileChunk(t.path, t.read)

\* C18: every function-kind chunk in the metadata of a completed build records
\* a range with 1 <= start_line <= end_line <= N, N the line count of its file.
C18_RecordedRangeInFile ==
  b_pc = "done" =>
    \A i \in 1..Len(disk.metadata.chunks) :
      LET c == disk.metadata.chunks[i]
      IN  c.type = "function" =>
            \E t \in task_inputs :
              /\ t.path = c.file_path
              /\ 1 <= c.start_line
              /\ c.start_line <= c.end_line
              /\ c.end_line <= Len(t.read)

\* ---- The chunker on its own ----

\* A file of n lines, and the span lists an extractor may return for it:
\* start and end lines inside the file and just outside it.
LinesOf(n) == [i \in 1..n |-> "line " \o ToString(i)]
SpansFor(n) == {Span("f", first, last) : first \in (-1)..(n + 1), last \in 0..(n + 1)}
SpanLists(n) == UNION {[1..k -> SpansFor(n)] : k \in 0..MaxSpans}

ChunkSpecInit ==
  /\ AgentInit({1}) /\ BuildInit /\ SearchIdle /\ ServeIdle /\ PoolIdle /\ ReloadIdle
  /\ c_pc = "input"
  /\ c_chunks = <<>>
  /\ \E n \in 1..MaxLines : c_content = LinesOf(n) /\ c_functions \in SpanLists(n)

\* chunks = self._create_chunks(relative_path, content, functions)
CreateChunks ==
  /\ c_pc = "input"
  /\ c_chunks' = _create_chunks("a.py", c_content, c_functions)
  /\ c_pc' = "chunked"
  /\ UNCHANGED <<c_content, c_functions>>
  /\ UNCHANGED nonChunkVars

ChunkNext == CreateChunks

ChunkSpec == ChunkSpecInit /\ [][ChunkNext]_vars

\* Lines first..last of the file, inclusive.
LinesFromTo(first, last) == [j \in 1..(last - first + 1) |-> c_content[first + j - 1]]

\* C16: for a content of N lines and k spans with 1 <= start_line <= end_line
\* <= N, the chunker returns k+1 chunks: the file chunk with the whole content
\* and range 1..N first, then one function chunk per span in span order, its
\* content being lines start_line..end_line inclusive.
C16_ChunkerExact ==
  (/\ c_pc = "chunked"
   /\ \A k \in 1..Len(c_functions) :
        /\ 1 <= c_functions[k].start_line
        /\ c_functions[k].start_line <= c_functions[k].end_line
        /\ c_functions[k].end_line <= Len(c_content)) =>
    /\ Len(c_chunks) = Len(c_functions) + 1
    /\ c_chunks[1].type = "file"
    /\ c_chunks[1].content = c_content
    /\ c_chunks[1].start_line = 1
    /\ c_chunks[1].end_line = Len(c_content)
    /\ \A k \in 1..Len(c_functions) :
         /\ c_chunks[k + 1].type = "function"
         /\ c_chunks[k + 1].function_name = c_functions[k].function_name
         /\ c_chunks[k + 1].content =
              LinesFromTo(c_functions[k].start_line, c_functions[k].end_line)

\* A file of 5 lines with a function at lines 3-5, followed in the span list
\* by one at lines 1-2.
C16_Witness ==
  /\ c_pc = "chunked"
  /\ Len(c_content) = 5
  /\ c_functions = <<Span("f", 3, 5), Span("f", 1, 2)>>
  /\ Len(c_chunks) = 3
  /\ c_chunks[2].content = <<"line 3", "line 4", "line 5">>
  /\ c_chunks[3].content = <<"line 1", "line 2">>

\* C17: clamping.  Every function chunk made from a span with 1 <= start_line
\* <= N < end_line holds exactly lines start_line..N (a dropped span has no
\* chunk).
C17_Clamping ==
  c_pc = "chunked" =>
    \A i \in 1..Len(c_chunks) :
      (/\ c_chunks[i].type = "function"
       /\ 1 <= c_chunks[i].start_line
       /\ c_chunks[i].start_line <= Len(c_content)
       /\ c_chunks[i].end_line > Len(c_content)) =>
        c_chunks[i].content = LinesFromTo(c_chunks[i].start_line, Len(c_content))

\* A span 2..4 on a file of 3 lines: the chunk holds lines 2..3.
C17_Witness ==
  /\ c_pc = "chunked"
  /\ Len(c_content) = 3
  /\ c_functions = <<Span("f", 2, 4)>>
  /\ c_chunks[2].content = <<"line 2", "line 3">>

\* ---- The searcher on its own ----

\* Chunk lists that builds collect: no file at all, one file without
\* functions, two files of which one has a function, two files with three
\* functions collected in the other order, two oversized files with the same
\* content.
IndexedChunkLists ==
  {<<>>,
   _process_single_file("a.py", SmallContent("a.py"), <<>>),
   _process_single_file("a.py", SmallContent("a.py"), <<Span("f", 1, 2)>>) \o
     _process_single_file("b.py", SmallContent("b.py"), <<>>),
   _process_single_file("b.py", SmallContent("b.py"), <<Span("g", 2, 3), Span("h", 1, 1)>>) \o
     _process_single_file("a.py", SmallContent("a.py"), <<Span("f", 1, 2)>>),
   _process_single_file("a.py", BigContent, NotCalled) \o
     _process_single_file("b.py", BigContent, NotCalled)}

\* The directory after a completed run of index() that collected the chunks:
\* a structure is written for a kind that has chunks, and left as it was for
\* a kind that has none.
IndexedDir(dir, build, chunks) ==
  [file_index |->
     IF OfKind(chunks, "file") # <<>>
     THEN IndexFile(build, _get_embeddings(Contents_(OfKind(chunks, "file"))))
     ELSE dir.file_index,
   function_index |->
     IF OfKind(chunks, "function") # <<>>
     THEN IndexFile(build, _get_embeddings(Contents_(OfKind(chunks, "function"))))
     ELSE dir.function_index,
   metadata |-> MetadataFile(build, chunks)]

BuiltDirs ==
  {IndexedDir(EmptyDir, 1, first) : first \in IndexedChunkLists} \cup
  {IndexedDir(IndexedDir(EmptyDir, 1, first), 2, second) :
     first \in IndexedChunkLists, second \in IndexedChunkLists}

\* The directories a searcher is constructed on: what builds leave, and the
\* same with one file missing or with a structure that holds zero vectors.
IndexDirs ==
  {EmptyDir} \cup BuiltDirs \cup
  {[dir EXCEPT ![name] = NoFile] :
     dir \in BuiltDirs, name \in {"file_index", "function_index", "metadata"}} \cup
  {[dir EXCEPT ![name] = IndexFile(dir.metadata.build, <<>>)] :
     dir \in BuiltDirs, name \in {"file_index", "function_index"}} \cup
  {[dir EXCEPT ![name] = CorruptFile] :
     dir \in BuiltDirs, name \in {"file_index", "function_index", "metadata"}}

SearchQuestions == {<<"def f():", "  return 1">>, <<"where is the parser">>, BigContent}
IndexTypes == {"file", "function", "class"}

\* faiss IndexFlatL2: squared L2 distance, the k nearest positions (0-based)
\* by ascending distance; the order among equal distances is not specified.
Distance(u, v) == (u[1] - v[1]) * (u[1] - v[1]) + (u[2] - v[2]) * (u[2] - v[2])
index_search_farthest(vectors, query, k) ==
  {ranking \in [1..k -> 0..(Len(vectors) - 1)] :
     /\ \A i, j \in 1..k : i < j =>
          /\ ranking[i] # ranking[j]
          /\ Distance(vectors[ranking[i] + 1], query) >= Distance(vectors[ranking[j] + 1], query)
     /\ \A pos \in 0..(Len(vectors) - 1) :
          (\A i \in 1..k : ranking[i] # pos) =>
             \A i \in 1..k :
               Distance(vectors[ranking[i] + 1], query) >= Distance(vectors[pos + 1], query)}
index_search(vectors, query, k) ==
  {ranking \in [1..k -> 0..(Len(vectors) - 1)] :
     /\ \A i, j \in 1..k : i < j =>
          /\ ranking[i] # ranking[j]
          /\ Distance(vectors[ranking[i] + 1], query) <= Distance(vectors[ranking[j] + 1], query)
     /\ \A pos \in 0..(Len(vectors) - 1) :
          (\A i \in 1..k : ranking[i] # pos) =>
             \A i \in 1..k :
               Distance(vectors[ranking[i] + 1], query) <= Distance(vectors[pos + 1], query)}

\* The result record of search for a chunk.
SearchResult(chunk, chunk_type, distance) ==
  IF chunk_type = "function"
  THEN [file_path |-> chunk.file_path, content |-> chunk.content, distance |-> distance,
        type |-> chunk_type, function_name |-> chunk.function_name,
        start_line |-> chunk.start_line, end_line |-> chunk.end_line]
  ELSE [file_path |-> chunk.file_path, content |-> chunk.content, distance |-> distance,
        type |-> chunk_type, start_line |-> chunk.start_line, end_line |-> chunk.end_line]

\* for i, idx in enumerate(indices[0]): if idx < len(typed_chunks): ...
ResultsUntyped(self, chunk_type, index, query, indices) ==
  LET hits == SelectSeq(indices, LAMBDA idx : idx < Len(self.metadata.chunks))
  IN  [i \in 1..Len(hits) |->
         SearchResult(self.metadata.chunks[hits[i] + 1], chunk_type,
                      Distance(index.vectors[hits[i] + 1], query))]
Results(self, chunk_type, index, query, indices) ==
  LET typed_chunks == OfKind(self.metadata.chunks, chunk_type)
      hits == SelectSeq(indices, LAMBDA idx : idx < Len(typed_chunks))
  IN  [i \in 1..Len(hits) |->
         SearchResult(ChunkAtPosition(self, chunk_type, hits[i]), chunk_type,
                      Distance(index.vectors[hits[i] + 1], query))]

\* The outcomes of CodeSearcher.search.
SearchReturned(embedded, indices, results) ==
  [pc |-> "returned", embedded |-> embedded, indices |-> indices, results |-> results]
SearchRaised == [pc |-> "raised", embedded |-> TRUE, indices |-> <<>>, results |-> <<>>]

\* CodeSearcher.search: the set of its outcomes, embedding_ok telling whether
\* the embedding request of the question succeeds.  A top_k below 1 reaches
\* index.search with k < 1, which raises or returns nothing depending on the
\* faiss build.
search(self, question, index_type, top_k, embedding_ok) ==
  IF ~self.metadata.exists THEN {SearchReturned(FALSE, <<>>, <<>>)}
  ELSE IF ~embedding_ok THEN {SearchRaised}
  ELSE IF index_type \notin {"file", "function"} THEN {SearchReturned(TRUE, <<>>, <<>>)}
  ELSE LET index == IF index_type = "file" THEN self.file_index ELSE self.function_index
           ntotal == Len(index.vectors)
       IN  IF ~index.exists \/ ntotal = 0 THEN {SearchReturned(TRUE, <<>>, <<>>)}
           ELSE IF Min(top_k, ntotal) < 1
                THEN {SearchRaised, SearchReturned(TRUE, <<>>, <<>>)}
           ELSE {SearchReturned(TRUE, indices,
                                Results(self, index_type, index, Embed(question), indices)) :
                   indices \in index_search(index.vectors, Embed(question),
                                            Min(top_k, ntotal))}

\* The paths list_file_content is asked for ("c.py" is in no index) and what
\* open(file_path).read() finds there: the file may have been edited since it
\* was indexed.  The empty text is the single empty line.
ListedPaths == FilePaths \cup {"c.py"}
EditedContent == <<"# edited">>
EmptyText == <<"">>
FsOutcomes(path) == {Unreadable, EditedContent} \cup
                    (IF path \in FilePaths THEN {SmallContent(path)} ELSE {})
FsRead(on_disk) == IF on_disk = Unreadable THEN EmptyText ELSE on_disk

\* CodeSearcher.list_file_content: the text returned, and whether the
\* filesystem was read.
list_file_content(self, file_path, on_disk) ==
  LET stored == SelectSeq(self.metadata.chunks,
                          LAMBDA c : c.type = "file" /\ c.file_path = file_path)
  IN  IF ~self.metadata.exists THEN [content |-> EmptyText, fs_read |-> FALSE]
      ELSE IF stored # <<>> THEN [content |-> stored[1].content, fs_read |-> FALSE]
      ELSE [content |-> FsRead(on_disk), fs_read |-> TRUE]

\* ---- tools.py: the tool functions ----

\* What a tool function hands back: the record it returned, or an exception.
PyValue(v) == [ty |-> "value", value |-> v]
ToolReturned(record) == [raised |-> FALSE, record |-> record]
ToolRaised == [raised |-> TRUE, record |-> [success |-> NoneValue]]

\* What is at a path: nothing, a directory, or a file that open().read()
\* reads or fails on.
PathStates(path) ==
  {[kind |-> "missing"], [kind |-> "directory"]} \cup
  {[kind |-> "file", read |-> r] : r \in FsOutcomes(path)}
OnDisk(state) == IF state.kind = "file" THEN state.read ELSE Unreadable

cat_file_uncaught(file_path, state) ==
  IF state.kind = "missing"
  THEN ToolReturned([success |-> FALSE, content |-> JNull, error |-> "File not found"])
  ELSE IF state.kind # "file"
  THEN ToolReturned([success |-> FALSE, content |-> JNull, error |-> "Path is not a file"])
  ELSE IF state.read = Unreadable THEN ToolRaised
  ELSE ToolReturned([success |-> TRUE, content |-> PyValue(state.read), error |-> NoneValue])

cat_file(file_path, state) ==
  IF state.kind = "missing"
  THEN ToolReturned([success |-> FALSE, content |-> JNull, error |-> "File not found"])
  ELSE IF state.kind # "file"
  THEN ToolReturned([success |-> FALSE, content |-> JNull, error |-> "Path is not a file"])
  ELSE IF state.read = Unreadable
  THEN ToolReturned([success |-> FALSE, content |-> JNull, error |-> "Error reading file"])
  ELSE ToolReturned([success |-> TRUE, content |-> PyValue(state.read), error |-> NoneValue])

\* ls_directory; outcome says what the path is and whether iterdir raises.
LsOutcomes == {"missing", "not_directory", "listed", "raises"}
ls_directory(dir_path, outcome) ==
  CASE outcome = "missing" ->
         ToolReturned([success |-> FALSE, items |-> JNull, error |-> "Directory not found"])
    [] outcome = "not_directory" ->
         ToolReturned([success |-> FALSE, items |-> JNull, error |-> "Path is not a directory"])
    [] outcome = "raises" ->
         ToolReturned([success |-> FALSE, items |-> JNull, error |-> "Error listing directory"])
    [] outcome = "listed" ->
         ToolReturned([success |-> TRUE, error |-> NoneValue,
                       items |-> PyValue(<<[name |-> "a.py", type |-> "file",
                                            path |-> dir_path \o "/a.py"]>>)])

\* find_files; outcome says what the path is and what the find command does.
FindOutcomes == {"missing", "nonzero", "found", "timeout", "raises"}
find_files(pattern, start_path, outcome) ==
  CASE outcome = "missing" ->
         ToolReturned([success |-> FALSE, files |-> JNull, error |-> "Start path not found"])
    [] outcome = "nonzero" ->
         ToolReturned([success |-> FALSE, files |-> JNull, error |-> "Find command failed"])
    [] outcome = "timeout" ->
         ToolReturned([success |-> FALSE, files |-> JNull, error |-> "Find command timed out"])
    [] outcome = "raises" ->
         ToolReturned([success |-> FALSE, files |-> JNull, error |-> "Error running find"])
    [] outcome = "found" ->
         ToolReturned([success |-> TRUE, files |-> PyValue(<<start_path \o "/a.py">>),
                       error |-> NoneValue])

\* search_codebase: the set of its outcomes.
search_codebase(global_searcher, question, index_type, top_k, embedding_ok) ==
  IF global_searcher = NoSearcher
  THEN {ToolReturned([success |-> FALSE, results |-> JNull, error |-> "Index not loaded"])}
  ELSE {IF outcome.pc = "raised"
        THEN ToolReturned([success |-> FALSE, results |-> JNull, error |-> "Search failed"])
        ELSE ToolReturned([success |-> TRUE, results |-> PyValue(outcome.results),
                           error |-> NoneValue]) :
          outcome \in search(global_searcher, question, index_type, top_k, embedding_ok)}

\* The tool list_file_content: `if content:` is false for the empty text.
\* The tool reads the filesystem whatever the index holds.
tool_list_file_content_unindexed(global_searcher, file_path, state) ==
  cat_file(file_path, state)

tool_list_file_content(global_searcher, file_path, state) ==
  IF global_searcher = NoSearcher THEN cat_file(file_path, state)
  ELSE LET content == list_file_content(global_searcher, file_path, OnDisk(state)).content
       IN  IF content # EmptyText
           THEN ToolReturned([success |-> TRUE, content |-> PyValue(content),
                              error |-> NoneValue])
           ELSE cat_file(file_path, state)

\* The calls of the five tool functions, each with what it hands back.
ToolCall(tool, arguments, handed) == [tool |-> tool, arguments |-> arguments, handed |-> handed]
ToolCalls(global_searcher) ==
  UNION {{ToolCall("cat", [file_path |-> path], cat_file(path, state)) :
            state \in PathStates(path)} : path \in ListedPaths} \cup
  UNION {{ToolCall("list_file_content", [file_path |-> path],
                   tool_list_file_content(global_searcher, path, state)) :
            state \in PathStates(path)} : path \in ListedPaths} \cup
  {ToolCall("ls", [dir_path |-> "."], ls_directory(".", outcome)) : outcome \in LsOutcomes} \cup
  {ToolCall("find", [pattern |-> "*.py", start_path |-> "."],
            find_files("*.py", ".", outcome)) : outcome \in FindOutcomes} \cup
  UNION {{ToolCall("search", [question |-> question, index_type |-> index_type,
                              top_k |-> top_k], handed) :
            handed \in UNION {search_codebase(global_searcher, question, index_type, top_k, ok) :
                                ok \in BOOLEAN}} :
           question \in SearchQuestions, index_type \in IndexTypes, top_k \in 0..MaxTopK}

SearchSpecInit ==
  /\ AgentInit({1}) /\ BuildInit /\ ChunkIdle /\ ServeIdle /\ PoolIdle /\ ReloadIdle
  /\ s_pc = "idle"
  /\ s_dir \in IndexDirs
  /\ s_searcher = NoSearcher
  /\ s_call = NoCall /\ s_embedded = FALSE /\ s_indices = <<>> /\ s_results = <<>>
  /\ s_listed = NotListed
  /\ _searcher = NoSearcher /\ t_call = NoToolCall /\ t_result = NoToolResult

\* searcher = CodeSearcher(index_dir=...)
ConstructSearcher ==
  /\ s_pc = "idle"
  /\ IF _load_indices(s_dir).raised
     THEN s_searcher' = NoSearcher /\ s_pc' = "construction failed"
     ELSE s_searcher' = CodeSearcher(s_dir, b_pc) /\ s_pc' = "constructed"
  /\ UNCHANGED <<s_dir, s_call, s_embedded, s_indices, s_results, s_listed,
                 _searcher, t_call, t_result>>
  /\ UNCHANGED nonSearchVars

\* set_searcher(searcher)
SetSearcher ==
  /\ s_pc # "idle"
  /\ _searcher = NoSearcher
  /\ _searcher' = s_searcher
  /\ t_call' = NoToolCall /\ t_result' = NoToolResult
  /\ UNCHANGED <<s_pc, s_dir, s_searcher, s_call, s_embedded, s_indices, s_results, s_listed>>
  /\ UNCHANGED nonSearchVars

\* searcher.search(question, index_type, top_k)
Search ==
  /\ s_pc \in {"constructed", "returned", "raised", "listed"}
  /\ \E question \in SearchQuestions, index_type \in IndexTypes, top_k \in 0..MaxTopK :
     \E embedding_ok \in BOOLEAN :
     \E outcome \in search(s_searcher, question, index_type, top_k, embedding_ok) :
       /\ s_call' = [question |-> question, index_type |-> index_type, top_k |-> top_k]
       /\ s_pc' = outcome.pc
       /\ s_embedded' = outcome.embedded
       /\ s_indices' = outcome.indices
       /\ s_results' = outcome.results
  /\ s_listed' = NotListed
  /\ t_call' = NoToolCall /\ t_result' = NoToolResult
  /\ UNCHANGED <<s_dir, s_searcher, _searcher>>
  /\ UNCHANGED nonSearchVars

\* searcher.list_file_content(file_path), the file being as on_disk.
ListFileContent ==
  /\ s_pc \in {"constructed", "returned", "raised", "listed"}
  /\ \E file_path \in ListedPaths : \E on_disk \in FsOutcomes(file_path) :
       s_listed' = [called |-> TRUE, file_path |-> file_path, on_disk |-> on_disk,
                    fs_read |-> list_file_content(s_searcher, file_path, on_disk).fs_read,
                    content |-> list_file_content(s_searcher, file_path, on_disk).content]
  /\ s_pc' = "listed"
  /\ s_call' = NoCall /\ s_embedded' = FALSE /\ s_indices' = <<>> /\ s_results' = <<>>
  /\ t_call' = NoToolCall /\ t_result' = NoToolResult
  /\ UNCHANGED <<s_dir, s_searcher, _searcher>>
  /\ UNCHANGED nonSearchVars

\* TOOLS[name]["function"](**arguments): the body of a tool function runs.
CallTool ==
  /\ \E call \in ToolCalls(_searcher) :
       /\ t_call' = [tool |-> call.tool, arguments |-> call.arguments]
       /\ t_result' = call.handed
  /\ s_pc' = IF s_pc = "idle" THEN "idle" ELSE "constructed"
  /\ s_call' = NoCall /\ s_embedded' = FALSE /\ s_indices' = <<>> /\ s_results' = <<>>
  /\ s_listed' = NotListed
  /\ UNCHANGED <<s_dir, s_searcher, _searcher>>
  /\ UNCHANGED nonSearchVars

SearchNext ==
  \/ ConstructSearcher
  \/ SetSearcher
  \/ Search
  \/ ListFileContent
  \/ CallTool

SearchSpec == SearchSpecInit /\ [][SearchNext]_vars

\* The structure the searcher holds for the kind of the last call.
SelectedIndex ==
  IF s_call.index_type = "file" THEN s_searcher.file_index ELSE s_searcher.function_index
Called == s_pc \in {"returned", "raised"}

\* C19: search returns an empty list and does not raise whenever the kind is
\* not file/function, or the selected kind's structure is absent or holds
\* zero vectors, for every query and top_k.
C19_EmptyNotError ==
  (/\ Called
   /\ \/ s_call.index_type \notin {"file", "function"}
      \/ ~SelectedIndex.exists
      \/ Len(SelectedIndex.vectors) = 0) =>
    s_pc = "returned" /\ s_results = <<>>

\* The same for the calls whose embedding request succeeded or was not made.
EmptyWhenQueryEmbedded ==
  (/\ s_pc = "returned"
   /\ \/ s_call.index_type \notin {"file", "function"}
      \/ ~SelectedIndex.exists
      \/ Len(SelectedIndex.vectors) = 0) =>
    s_results = <<>>

\* C20: for a loaded kind K with V > 0 vectors and top_k >= 1, a search that
\* returns gives at most min(top_k, V) results; every returned position is in
\* 0..V-1, and the results are, in order, the chunks at the returned
\* positions of the list of K-kind chunks of the metadata (positions beyond
\* that list give no result), each of kind K.
C20_ResultsAreTypedChunks ==
  (/\ s_pc = "returned"
   /\ s_call.index_type \in {"file", "function"}
   /\ s_searcher.metadata.exists
   /\ SelectedIndex.exists
   /\ Len(SelectedIndex.vectors) > 0
   /\ s_call.top_k >= 1) =>
    LET K == s_call.index_type
        V == Len(SelectedIndex.vectors)
        typed == SelectSeq(s_searcher.metadata.chunks, LAMBDA c : c.type = K)
        hits == SelectSeq(s_indices, LAMBDA idx : idx < Len(typed))
    IN  /\ Len(s_results) <= s_call.top_k
        /\ Len(s_results) <= V
        /\ \A i \in 1..Len(s_indices) : s_indices[i] \in 0..(V - 1)
        /\ Len(s_results) = Len(hits)
        /\ \A i \in 1..Len(hits) :
             /\ s_results[i].type = K
             /\ typed[hits[i] + 1].type = K
             /\ s_results[i].file_path = typed[hits[i] + 1].file_path
             /\ s_results[i].content = typed[hits[i] + 1].content
             /\ s_results[i].start_line = typed[hits[i] + 1].start_line
             /\ s_results[i].end_line = typed[hits[i] + 1].end_line

\* A function search with top_k = 2 on an index of two files and three
\* functions whose metadata lists a file chunk first: two function results.
C20_Witness ==
  /\ s_pc = "returned"
  /\ s_call.index_type = "function"
  /\ s_call.top_k = 2
  /\ Len(s_searcher.function_index.vectors) = 3
  /\ Len(s_searcher.metadata.chunks) = 5
  /\ s_searcher.metadata.chunks[1].type = "file"
  /\ Len(s_results) = 2
  /\ s_results[1].type = "function"

\* A result of the last call that is the given chunk, at distance 0.
ReturnedAtZero(chunk) ==
  \E j \in 1..Len(s_results) :
    /\ s_results[j].file_path = chunk.file_path
    /\ s_results[j].content = chunk.content
    /\ s_results[j].start_line = chunk.start_line
    /\ s_results[j].end_line = chunk.end_line
    /\ s_results[j].type = chunk.type
    /\ s_results[j].distance = 0
\* A search of kind K with top_k >= 1 has returned on a directory that builds
\* left.
RoundTripCall ==
  /\ s_pc = "returned"
  /\ s_dir \in BuiltDirs
  /\ s_call.index_type \in {"file", "function"}
  /\ s_call.top_k >= 1
TypedChunksOfCall ==
  SelectSeq(s_searcher.metadata.chunks, LAMBDA c : c.type = s_call.index_type)

\* C21: round trip.  After a build, a search of kind K whose query text is
\* the content of some K-kind chunk returns, for any top_k >= 1, that chunk
\* among the results at distance 0.
C21_RoundTrip ==
  RoundTripCall =>
    \A i \in 1..Len(TypedChunksOfCall) :
      TypedChunksOfCall[i].content = s_call.question =>
        ReturnedAtZero(TypedChunksOfCall[i])

\* C21 as the code has it: some K-kind chunk with the query's content is
\* returned at distance 0, and the chunk itself is among the results when
\* top_k covers all the K-kind chunks whose vector equals the query's.
C21_RoundTripUpToEqualVectors ==
  RoundTripCall =>
    \A i \in 1..Len(TypedChunksOfCall) :
      TypedChunksOfCall[i].content = s_call.question =>
        /\ \E m \in 1..Len(TypedChunksOfCall) :
             /\ TypedChunksOfCall[m].content = s_call.question
             /\ ReturnedAtZero(TypedChunksOfCall[m])
        /\ Cardinality({m \in 1..Len(TypedChunksOfCall) :
                          Embed(TypedChunksOfCall[m].content) = Embed(s_call.question)})
             <= s_call.top_k
           => ReturnedAtZero(TypedChunksOfCall[i])

\* Two file chunks with the same content, queried with that content and
\* top_k = 1: one of the two comes back, at distance 0.
C21_Witness ==
  /\ RoundTripCall
  /\ s_call.index_type = "file"
  /\ s_call.top_k = 1
  /\ Len(TypedChunksOfCall) = 2
  /\ TypedChunksOfCall[1].content = s_call.question
  /\ TypedChunksOfCall[2].content = s_call.question
  /\ Len(s_results) = 1
  /\ s_results[1].distance = 0

\* The file-kind chunks of the loaded metadata for the path last asked for.
StoredForListed ==
  SelectSeq(s_searcher.metadata.chunks,
            LAMBDA c : c.type = "file" /\ c.file_path = s_listed.file_path)

\* C22: list_file_content returns the stored content of the path's file-kind
\* chunk when the loaded metadata has one, and in every other case (path not
\* indexed, or no metadata loaded) the result of a filesystem read of the path.
C22_StoredOrFilesystem ==
  s_listed.called =>
    IF s_searcher.metadata.exists /\ StoredForListed # <<>>
    THEN s_listed.content = StoredForListed[1].content
    ELSE s_listed.on_disk # Unreadable =>
           s_listed.content = s_listed.on_disk

\* The payload field of each tool's record.
PayloadField(tool) ==
  CASE tool \in {"cat", "list_file_content"} -> "content"
    [] tool = "ls" -> "items"
    [] tool = "find" -> "files"
    [] tool = "search" -> "results"

\* C23: every tool function of the registry never raises and returns a record
\* with a boolean success, its payload field and an error field; success
\* implies a null error, failure implies a null payload and an error string.
C23_ToolRecordShape ==
  t_call.tool \in {"search", "list_file_content", "cat", "ls", "find"} =>
    /\ ~t_result.raised
    /\ DOMAIN t_result.record = {"success", PayloadField(t_call.tool), "error"}
    /\ t_result.record.success \in BOOLEAN
    /\ t_result.record.success => t_result.record.error = "<None>"
    /\ ~t_result.record.success =>
         /\ t_result.record[PayloadField(t_call.tool)].ty = "null"
         /\ t_result.record.error # "<None>"

\* The tool list_file_content was called for a path the loaded index does not
\* have and that open() cannot read: a failure record.
C23_Witness ==
  /\ t_call.tool = "list_file_content"
  /\ _searcher # NoSearcher
  /\ _searcher.metadata.exists
  /\ ~t_result.raised
  /\ t_result.record.success = FALSE
  /\ t_result.record.error = "Error reading file"

\* ---- The conversation of a query ----

\* Number of assistant turns in the history, and the position after the turns
\* of round r: that of the next assistant turn, or the end of the history.
Rounds == Cardinality(AssistantPositions)
RoundEnd(r) == IF r + 1 < Rounds THEN RoundPos(r + 1) ELSE Len(conversation_history) + 1

\* C24: conversation structure.  The history is the user message followed,
\* per round, by one assistant turn and, when the round dispatched k tool
\* calls, exactly k tool-result turns in call order carrying the ids of the
\* calls; during the dispatch the results are collected in call order and not
\* yet in the history; the model call of a round was sent the system prompt
\* and exactly the turns before the round's assistant turn, so all results of
\* the earlier rounds.
C24_ConversationStructure ==
  /\ pc # "idle" =>
       /\ Len(conversation_history) >= 1
       /\ conversation_history[1].role = "user"
  /\ \A p \in 2..Len(conversation_history) :
       conversation_history[p].role \in {"assistant", "tool"}
  /\ Rounds >= 1 => RoundPos(0) = 2
  /\ \A r \in 0..(Rounds - 1) :
       LET p == RoundPos(r)
           tcs == conversation_history[p].tool_calls
           k == IF r < max_iterations - 1 THEN Len(tcs) ELSE 0
       IN  /\ api_calls[r + 1].iteration = r
           /\ api_calls[r + 1].messages = p
           /\ IF pc = "dispatch" /\ r = iteration
              THEN /\ p = Len(conversation_history)
                   /\ tcs = tool_calls
                   /\ Len(tool_results) = tc_index - 1
                   /\ \A i \in 1..Len(tool_results) :
                        /\ tool_results[i].role = "tool"
                        /\ tool_results[i].tool_call_id = tcs[i].id
                        /\ tool_results[i].name = tcs[i].name
              ELSE /\ RoundEnd(r) - p - 1 = k
                   /\ \A i \in 1..k :
                        /\ conversation_history[p + i].role = "tool"
                        /\ conversation_history[p + i].tool_call_id = tcs[i].id
                        /\ conversation_history[p + i].name = tcs[i].name

\* Round 0 dispatched two tool calls, whose results precede the assistant
\* turn of round 1.
C24_Witness ==
  /\ Len(conversation_history) >= 5
  /\ Len(conversation_history[2].tool_calls) = 2
  /\ conversation_history[3].role = "tool"
  /\ conversation_history[4].role = "tool"
  /\ conversation_history[3].tool_call_id # conversation_history[4].tool_call_id
  /\ conversation_history[5].role = "assistant"
  /\ Len(api_calls) >= 2
  /\ api_calls[2].messages = 5

\* C25: conversation reset.  At the first model call of every query the
\* history is exactly that query's user message: it is so before the call is
\* made, and the call is sent the system prompt and that one turn, whatever
\* queries were run on the Agent before.
C25_ConversationReset ==
  /\ (pc = "loop" /\ iteration = 0 /\ api_calls = <<>>) =>
       /\ Len(conversation_history) = 1
       /\ conversation_history[1].role = "user"
       /\ conversation_history[1].content = asked
  /\ Len(api_calls) >= 1 =>
       /\ api_calls[1].messages = 2
       /\ conversation_history[1].role = "user"
       /\ conversation_history[1].content = asked

\* The first model call of a second query on the Agent has been answered.
C25_Witness ==
  /\ queries = 2
  /\ asked = "and where are the tools?"
  /\ Len(api_calls) = 1
  /\ Len(conversation_history) = 2
  /\ conversation_history[1].content = "and where are the tools?"

\* ---------------------------------------------------------------------------
\* The /query handler: every request constructs an Agent of its own and runs
\* Agent.query on it.  Requests are handled interleaved; a turn carries the
\* request whose query produced it.

\* The handler of a request calls query on one Agent shared by all requests.
AgentOfShared(request) == 1

\* agent = Agent(model=..., max_iterations=...): a new object per request.
AgentOf(request) == request

HTurn(role, request) == [role |-> role, by |-> request]

RECURSIVE HToolTurns(_, _)
HToolTurns(k, request) ==
  IF k = 0 THEN <<>> ELSE Append(HToolTurns(k - 1, request), HTurn("tool", request))

ServeInit == AgentInit({1}) /\ BuildInit /\ ChunkIdle /\ SearchIdle /\ ServeIdle /\ PoolIdle /\ ReloadIdle

\* The handler constructs the Agent and query starts: the history of that
\* Agent becomes the question of the request.
HandleQuery(r) ==
  /\ h_pc[r] = "idle"
  /\ h_agent' = [h_agent EXCEPT ![r] = AgentOf(r)]
  /\ histories' = [histories EXCEPT ![AgentOf(r)] = <<HTurn("user", r)>>]
  /\ h_pc' = [h_pc EXCEPT ![r] = "call"]
  /\ UNCHANGED <<h_tool_calls, h_iteration, h_sent>>
  /\ UNCHANGED nonServeVars

\* A model call of the query of r: it sends the history of its Agent, and the
\* response is appended to that history as an assistant turn.
ServeModelCall(r) ==
  /\ h_pc[r] = "call"
  /\ h_iteration[r] < MaxServeIterations
  /\ h_sent' = [h_sent EXCEPT ![r] = Append(@, histories[h_agent[r]])]
  /\ histories' = [histories EXCEPT ![h_agent[r]] = Append(@, HTurn("assistant", r))]
  /\ \E k \in 0..MaxToolCalls :
       /\ h_tool_calls' = [h_tool_calls EXCEPT ![r] = k]
       /\ h_pc' = [h_pc EXCEPT ![r] =
                     IF h_iteration[r] = MaxServeIterations - 1 \/ k = 0
                     THEN "done" ELSE "dispatch"]
  /\ UNCHANGED <<h_agent, h_iteration>>
  /\ UNCHANGED nonServeVars

\* The model call fails after its messages were sent: the query raises.
ServeModelCallFails(r) ==
  /\ h_pc[r] = "call"
  /\ h_iteration[r] < MaxServeIterations
  /\ h_sent' = [h_sent EXCEPT ![r] = Append(@, histories[h_agent[r]])]
  /\ h_pc' = [h_pc EXCEPT ![r] = "done"]
  /\ UNCHANGED <<h_agent, h_tool_calls, h_iteration, histories>>
  /\ UNCHANGED nonServeVars

\* The tool calls of the round are dispatched and their results extend the
\* history of the Agent; the loop goes on to the next iteration.
ServeDispatch(r) ==
  /\ h_pc[r] = "dispatch"
  /\ histories' = [histories EXCEPT ![h_agent[r]] = @ \o HToolTurns(h_tool_calls[r], r)]
  /\ h_iteration' = [h_iteration EXCEPT ![r] = @ + 1]
  /\ h_tool_calls' = [h_tool_calls EXCEPT ![r] = 0]
  /\ h_pc' = [h_pc EXCEPT ![r] = "call"]
  /\ UNCHANGED <<h_agent, h_sent>>
  /\ UNCHANGED nonServeVars

ServeNext ==
  \E r \in Requests :
    \/ HandleQuery(r)
    \/ ServeModelCall(r)
    \/ ServeModelCallFails(r)
    \/ ServeDispatch(r)

ServeSpec == ServeInit /\ [][ServeNext]_vars

ProducedBy(turns, r) == \A i \in 1..Len(turns) : turns[i].by = r

\* C26: when queries run interleaved, every turn in the history of a query
\* and every message one of its model calls sent was produced by that query.
C26_ConcurrentQueriesIndependent ==
  \A r \in Requests :
    h_pc[r] # "idle" =>
      /\ ProducedBy(histories[h_agent[r]], r)
      /\ \A c \in 1..Len(h_sent[r]) : ProducedBy(h_sent[r][c], r)

\* Two queries are both between their first and their last model call, each
\* with tool results in its history.
C26_Witness ==
  /\ h_pc[1] = "call" /\ h_pc[2] = "call"
  /\ h_iteration[1] = 1 /\ h_iteration[2] = 1
  /\ Len(h_sent[1]) = 1 /\ Len(h_sent[2]) = 1
  /\ Len(histories[h_agent[1]]) >= 3 /\ Len(histories[h_agent[2]]) >= 3

\* C27: with max_iterations >= 1 the loop never runs out of iterations, because
\* the final round always returns or raises; "Max iterations reached without
\* final answer" is raised only with max_iterations <= 0, after no model call.
C27_ExhaustionOnlyWithoutRounds ==
  /\ (pc = "raised" /\ error = RuntimeError("Max iterations reached without final answer")) =>
       (max_iterations <= 0 /\ api_calls = <<>>)
  /\ max_iterations >= 1 =>
       /\ ~(pc = "loop" /\ iteration >= max_iterations)
       /\ (Len(api_calls) >= 1 /\ api_calls[Len(api_calls)].iteration = max_iterations - 1) =>
            pc \in {"returned", "raised"}

\* The final round of a query with two iterations ended the query after a
\* first round that neither answered nor called a tool.
C27_Witness ==
  /\ max_iterations = 2
  /\ Len(api_calls) = 2
  /\ api_calls[2].iteration = 1
  /\ Len(conversation_history) = 3
  /\ ~Truthy(conversation_history[2].content)
  /\ pc \in {"returned", "raised"}

\* C28: a model call that fails is fatal to the query: query raises in that
\* round with no FinalAnswer, the failed call is the last model call, and no
\* tool is dispatched in that round or after it.
C28_FailedModelCallIsFatal ==
  \A j \in 1..Len(api_calls) :
    api_calls[j].raised =>
      /\ j = Len(api_calls)
      /\ pc = "raised"
      /\ result = NoAnswer
      /\ error = RuntimeError("OpenAI API call failed")
      /\ \A d \in 1..Len(dispatched) : dispatched[d].iteration < api_calls[j].iteration

\* The model call of the second round failed, after a round of tool calls.
C28_Witness ==
  /\ Len(api_calls) = 2
  /\ api_calls[2].raised
  /\ api_calls[2].iteration = 1
  /\ Len(dispatched) >= 1
  /\ pc = "raised"

FatalErrors ==
  {RuntimeError("OpenAI API call failed"),
   RuntimeError("Failed to validate structured output"),
   RuntimeError("No content in final response"),
   RuntimeError("Max iterations reached without final answer")}

\* C29: every failure that escapes query is a RuntimeError naming the failed
\* operation (model call failed, structured output failed validation, no
\* content in final response, max iterations reached), for every model
\* response and every tool behaviour.
C29_OnlyFatalErrorsEscape ==
  pc = "raised" => error \in FatalErrors

CallsOf(kind) == SelectSeq(embed_calls, LAMBDA c : c.kind = kind)
RowsOf(kind) == IF kind = "file" THEN file_embeddings ELSE function_embeddings
ContentsOfKind(kind) ==
  LET chunks == SelectSeq(all_chunks, LAMBDA c : c.type = kind)
  IN  [i \in 1..Len(chunks) |-> chunks[i].content]
\* The j-th run of at most BatchSize consecutive elements of contents.
ConsecutiveSlice(contents, j) ==
  LET first == (j - 1) * BatchSize
      size == IF Len(contents) - first < BatchSize THEN Len(contents) - first ELSE BatchSize
  IN  [i \in 1..size |-> contents[first + i]]

\* C30: for each kind with n chunks the build issues ceil(n / batch size)
\* embedding calls, the j-th over the j-th consecutive slice of at most batch
\* size chunk contents in list order, and row i of the concatenated outputs is
\* the vector of the i-th chunk of the kind.
C30_EmbeddingBatching ==
  \A kind \in {"file", "function"} :
    LET contents == ContentsOfKind(kind)
        n == Len(contents)
        calls == CallsOf(kind)
        rows == RowsOf(kind)
    IN  /\ \A j \in 1..Len(calls) :
             /\ (j - 1) * BatchSize < n
             /\ Len(calls[j].texts) \in 1..BatchSize
             /\ calls[j].texts = ConsecutiveSlice(contents, j)
        /\ b_pc = "done" =>
             /\ Len(calls) = (n + BatchSize - 1) \div BatchSize
             /\ Len(rows) = n
             /\ \A i \in 1..n : rows[i] = <<Len(contents[i]), SumCodes(contents[i])>>

\* A build with three function chunks has ended: two calls, of two and of one.
C30_Witness ==
  /\ b_pc = "done"
  /\ Len(ContentsOfKind("function")) = 3
  /\ Len(CallsOf("function")) = 2
  /\ Len(CallsOf("function")[1].texts) = 2
  /\ Len(CallsOf("function")[2].texts) = 1
  /\ Len(CallsOf("file")) = 1

\* C31: a completed build never persists a structure whose vector count
\* differs from the number of chunks of its kind in the persisted metadata: a
\* build with an embedding call that returned a number of vectors different
\* from the number of texts sent fails and writes nothing.
C31_MismatchFailsBuild ==
  /\ (\E j \in 1..Len(embed_calls) : embed_calls[j].returned # Len(embed_calls[j].texts)) =>
       (b_pc # "done" /\ written = {})
  /\ b_pc = "done" =>
       /\ "file" \in written =>
            Len(disk.file_index.vectors)
              = Len(SelectSeq(disk.metadata.chunks, LAMBDA c : c.type = "file"))
       /\ "function" \in written =>
            Len(disk.function_index.vectors)
              = Len(SelectSeq(disk.metadata.chunks, LAMBDA c : c.type = "function"))

\* C32: after a completed build the metadata file and every structure file
\* present in the directory were written by that build, also when the
\* directory held a previous index and the build has no chunk of some kind.
C32_SupersededWholesale ==
  b_pc = "done" =>
    /\ disk.metadata.exists /\ disk.metadata.build = builds
    /\ disk.file_index.exists => disk.file_index.build = builds
    /\ disk.function_index.exists => disk.function_index.build = builds

\* ---------------------------------------------------------------------------
\* The worker pool: index() submits one task per file to a ThreadPoolExecutor
\* and collects the futures in completion order.

\* The executor starts a queued task whatever the number of running ones.
MayStartUnbounded(running, workers) == TRUE

\* ThreadPoolExecutor(max_workers): a queued task starts when a worker is free.
MayStart(running, workers) == Cardinality(running) < workers

\* The files of the pool include one of exactly the threshold size.
PoolReadOutcomes(path) == ReadOutcomes(path) \cup {ThresholdContent}

PoolInit == AgentInit({1}) /\ BuildInit /\ ChunkIdle /\ SearchIdle /\ ServeIdle /\ PoolIdle /\ ReloadIdle

\* future_to_file = {executor.submit(...): file_path for ... in enumerate(files)}
SubmitTasks ==
  /\ w_pc = "idle"
  /\ \E codebase \in SUBSET FilePaths, workers \in 1..MaxWorkers :
       /\ max_workers' = workers
       /\ w_files' = codebase
       /\ w_queued' = codebase
       /\ w_pc' = IF codebase = {} THEN "collected" ELSE "collecting"
  /\ UNCHANGED <<w_running, w_futures, w_tasks, w_yielded, w_all_chunks>>
  /\ UNCHANGED nonPoolVars

\* A free worker takes a queued task.
WorkerStart(path) ==
  /\ w_pc = "collecting"
  /\ path \in w_queued
  /\ MayStart(w_running, max_workers)
  /\ w_queued' = w_queued \ {path}
  /\ w_running' = w_running \cup {path}
  /\ UNCHANGED <<w_pc, max_workers, w_files, w_futures, w_tasks, w_yielded, w_all_chunks>>
  /\ UNCHANGED nonPoolVars

\* The worker has run _process_single_file on its file: the future holds the
\* chunks it returned, or the exception it raised.
WorkerFinish(path) ==
  /\ w_pc = "collecting"
  /\ path \in w_running
  /\ \E read \in PoolReadOutcomes(path) : \E extracted \in ExtractorOutcomesFor(read) :
       /\ w_futures' = [w_futures EXCEPT ![path] = _process_single_file(path, read, extracted)]
       /\ w_tasks' = [w_tasks EXCEPT ![path] = [read |-> read, extracted |-> extracted]]
  /\ w_running' = w_running \ {path}
  /\ UNCHANGED <<w_pc, max_workers, w_files, w_queued, w_yielded, w_all_chunks>>
  /\ UNCHANGED nonPoolVars

\* as_completed yields a finished future: all_chunks.extend(future.result()),
\* or the exception of the task is logged.
CollectFuture(path) ==
  /\ w_pc = "collecting"
  /\ path \in w_files \ w_yielded
  /\ w_futures[path] # NoFuture
  /\ w_all_chunks' = Collected(w_all_chunks, w_futures[path])
  /\ w_yielded' = w_yielded \cup {path}
  /\ w_pc' = IF w_yielded' = w_files THEN "collected" ELSE "collecting"
  /\ UNCHANGED <<max_workers, w_files, w_queued, w_running, w_futures, w_tasks>>
  /\ UNCHANGED nonPoolVars

PoolNext ==
  \/ SubmitTasks
  \/ \E path \in FilePaths :
       \/ WorkerStart(path)
       \/ WorkerFinish(path)
       \/ CollectFuture(path)

PoolSpec == PoolInit /\ [][PoolNext]_vars

ChunksFrom(chunks, path) == SelectSeq(chunks, LAMBDA c : c.file_path = path)
Succeeded(future) == future # NoFuture /\ future # <<[failed |-> TRUE]>>

\* C33: at most max_workers tasks are in flight; the chunks each successfully
\* completed task returned are in the collected list exactly once, as soon as
\* its future was collected and not before; and only the collecting thread
\* changes the list, a worker changes nothing but its own future.
C33_ParallelProcessing ==
  /\ [](/\ Cardinality(w_running) <= max_workers
        /\ \A path \in FilePaths :
             /\ path \in w_yielded /\ Succeeded(w_futures[path]) =>
                  ChunksFrom(w_all_chunks, path) = w_futures[path]
             /\ path \notin w_yielded \/ ~Succeeded(w_futures[path]) =>
                  ChunksFrom(w_all_chunks, path) = <<>>)
  /\ [][/\ w_all_chunks' # w_all_chunks => (w_yielded' # w_yielded /\ w_futures' = w_futures)
        /\ \A path \in FilePaths :
             w_futures'[path] # w_futures[path] =>
               /\ path \in w_running
               /\ \A other \in FilePaths \ {path} : w_futures'[other] = w_futures[other]
               /\ w_all_chunks' = w_all_chunks]_vars

\* Both tasks ran with one worker, finished in the order b.py, a.py, and their
\* chunks were collected.
C33_Witness ==
  /\ w_pc = "collected"
  /\ max_workers = 1
  /\ w_files = {"a.py", "b.py"}
  /\ Len(w_all_chunks) >= 3
  /\ w_all_chunks[1].file_path = "b.py"
  /\ Succeeded(w_futures["a.py"]) /\ w_futures["a.py"] # <<>>

\* C34: a readable file of more than 50000 characters contributes exactly one
\* chunk, its file chunk with range 1..N, and the extractor is not called for
\* it; a readable file of at most 50000 characters goes through extraction.
C34_OversizedFilePolicy ==
  \A path \in FilePaths :
    LET t == w_tasks[path]
    IN  (t # NoTask /\ t.read # Unreadable) =>
          /\ NChars(t.read) > 50000 =>
               /\ t.extracted = NotCalled
               /\ w_futures[path] =
                    <<[type |-> "file", file_path |-> path, function_name |-> NoneValue,
                       content |-> t.read, start_line |-> 1, end_line |-> Len(t.read)]>>
               /\ path \in w_yielded => ChunksFrom(w_all_chunks, path) = w_futures[path]
          /\ NChars(t.read) <= 50000 =>
               /\ t.extracted # NotCalled
               /\ w_futures[path] = _create_chunks(path, t.read, _parse_functions(t.extracted))

\* The chunks of an oversized file and of a file of exactly 50000 characters
\* with one function were collected.
C34_Witness ==
  /\ w_pc = "collected"
  /\ w_tasks["a.py"].read = BigContent
  /\ w_tasks["b.py"].read = ThresholdContent
  /\ w_tasks["b.py"].extracted = <<Span("f", 1, 2)>>
  /\ Len(ChunksFrom(w_all_chunks, "a.py")) = 1
  /\ Len(ChunksFrom(w_all_chunks, "b.py")) = 2

NewObject == [stage |-> "empty", build |-> 0, returned |-> FALSE]

\* set_searcher is called with the object as soon as it exists.
MaySetSearcherEarly(position) == position \in {"loading", "loaded"}

\* set_searcher(searcher) follows the assignment of the constructed object.
MaySetSearcher(position) == position = "loaded"

\* The server starts on a directory that holds no index, or the index an
\* earlier run of index() left there.
ReloadInit ==
  /\ AgentInit({1}) /\ BuildInit /\ ChunkIdle /\ SearchIdle /\ ServeIdle /\ PoolIdle
  /\ i_pc = "startup"
  /\ i_builds \in {0, 1}
  /\ i_disk = [build |-> i_builds, writing |-> FALSE]
  /\ objects = <<>>
  /\ i_searcher = 0
  /\ tools_searcher = 0
  /\ seen = NothingSeen

\* lifespan: the directory has a metadata file; the Searcher is constructed
\* and set before the server takes requests.
LifespanLoads ==
  /\ i_pc = "startup"
  /\ i_disk.build >= 1
  /\ objects' = <<[stage |-> "structures", build |-> i_disk.build, returned |-> TRUE]>>
  /\ i_searcher' = 1
  /\ tools_searcher' = 1
  /\ i_pc' = "idle"
  /\ UNCHANGED <<i_builds, i_disk, seen>>
  /\ UNCHANGED nonReloadVars

\* lifespan: no metadata file, no Searcher.
LifespanSkips ==
  /\ i_pc = "startup"
  /\ i_disk.build = 0
  /\ i_pc' = "idle"
  /\ UNCHANGED <<i_builds, i_disk, objects, i_searcher, tools_searcher, seen>>
  /\ UNCHANGED nonReloadVars

\* indexer.index(...) starts writing into the directory.
IndexStarts ==
  /\ i_pc = "idle"
  /\ i_builds < MaxReloads
  /\ i_builds' = i_builds + 1
  /\ i_disk' = [i_disk EXCEPT !.writing = TRUE]
  /\ i_pc' = "indexing"
  /\ UNCHANGED <<objects, i_searcher, tools_searcher, seen>>
  /\ UNCHANGED nonReloadVars

\* index() returns: the directory holds the index of this run.
IndexReturns ==
  /\ i_pc = "indexing"
  /\ i_disk' = [build |-> i_builds, writing |-> FALSE]
  /\ i_pc' = "built"
  /\ UNCHANGED <<i_builds, objects, i_searcher, tools_searcher, seen>>
  /\ UNCHANGED nonReloadVars

\* index() raises: the handler answers 500 and replaces nothing.
IndexRaises ==
  /\ i_pc = "indexing"
  /\ i_disk' = [i_disk EXCEPT !.writing = FALSE]
  /\ i_pc' = "idle"
  /\ UNCHANGED <<i_builds, objects, i_searcher, tools_searcher, seen>>
  /\ UNCHANGED nonReloadVars

\* CodeSearcher.__init__ up to the call of _load_indices: a new object whose
\* attributes are None.
ConstructorStarts ==
  /\ i_pc = "built"
  /\ objects' = Append(objects, NewObject)
  /\ i_pc' = "loading"
  /\ UNCHANGED <<i_builds, i_disk, i_searcher, tools_searcher, seen>>
  /\ UNCHANGED nonReloadVars

\* _load_indices assigns the metadata, then the structures.
LoadStep ==
  /\ i_pc = "loading"
  /\ objects[Len(objects)].stage # "structures"
  /\ objects' = [objects EXCEPT ![Len(objects)] =
                   [stage |-> IF @.stage = "empty" THEN "metadata" ELSE "structures",
                    build |-> i_disk.build, returned |-> FALSE]]
  /\ UNCHANGED <<i_pc, i_builds, i_disk, i_searcher, tools_searcher, seen>>
  /\ UNCHANGED nonReloadVars

\* The constructor returns: searcher = CodeSearcher(...).
ConstructorReturns ==
  /\ i_pc = "loading"
  /\ objects[Len(objects)].stage = "structures"
  /\ objects' = [objects EXCEPT ![Len(objects)].returned = TRUE]
  /\ i_searcher' = Len(objects)
  /\ i_pc' = "loaded"
  /\ UNCHANGED <<i_builds, i_disk, tools_searcher, seen>>
  /\ UNCHANGED nonReloadVars

\* set_searcher(searcher): global _searcher; _searcher = searcher.
SetSharedSearcher ==
  /\ MaySetSearcher(i_pc)
  /\ tools_searcher' = Len(objects)
  /\ i_pc' = IF i_pc = "loaded" THEN "idle" ELSE i_pc
  /\ UNCHANGED <<i_builds, i_disk, objects, i_searcher, seen>>
  /\ UNCHANGED nonReloadVars

\* A tool of a query calls search or list_file_content of _searcher: it reads
\* the attributes of the object and assigns none.
ToolReadsSearcher ==
  /\ seen' = IF tools_searcher = 0
             THEN [called |-> TRUE, object |-> 0, stage |-> "none", returned |-> FALSE,
                   build |-> 0]
             ELSE [called |-> TRUE, object |-> tools_searcher,
                   stage |-> objects[tools_searcher].stage,
                   returned |-> objects[tools_searcher].returned,
                   build |-> objects[tools_searcher].build]
  /\ i_pc # "startup"
  /\ seen' # seen
  /\ UNCHANGED <<i_pc, i_builds, i_disk, objects, i_searcher, tools_searcher>>
  /\ UNCHANGED nonReloadVars

ReloadNext ==
  \/ LifespanLoads
  \/ LifespanSkips
  \/ IndexStarts
  \/ IndexReturns
  \/ IndexRaises
  \/ ConstructorStarts
  \/ LoadStep
  \/ ConstructorReturns
  \/ SetSharedSearcher
  \/ ToolReadsSearcher

ReloadSpec == ReloadInit /\ [][ReloadNext]_vars

\* C36: no call changes a Searcher after its constructor returned, and a
\* rebuild replaces the shared reference in one assignment made after index()
\* returned and the new Searcher finished loading: a tool call finds either no
\* Searcher, or a Searcher whose constructor has returned with the metadata and
\* structures of a completed build loaded, the old one or the new one.
C36_SharedSearcherReplacedWholesale ==
  /\ [](/\ tools_searcher # 0 =>
             /\ objects[tools_searcher].returned
             /\ objects[tools_searcher].stage = "structures"
             /\ objects[tools_searcher].build >= 1
        /\ (seen.called /\ seen.object # 0) =>
             /\ seen.returned /\ seen.stage = "structures" /\ seen.build >= 1
             /\ objects[seen.object] =
                  [stage |-> seen.stage, build |-> seen.build, returned |-> TRUE])
  /\ [][/\ \A k \in 1..Len(objects) : objects[k].returned => objects'[k] = objects[k]
        /\ (tools_searcher' # tools_searcher /\ i_pc # "startup") =>
             /\ i_pc = "loaded" /\ ~i_disk.writing
             /\ tools_searcher' = i_searcher
             /\ objects' = objects
        /\ seen' # seen => (objects' = objects /\ tools_searcher' = tools_searcher)]_vars

\* After two rebuilds replaced the Searcher loaded at startup, a tool call
\* found the newest one; the earlier ones are unchanged.
C36_Witness ==
  /\ Len(objects) = 3
  /\ tools_searcher = 3
  /\ seen.called /\ seen.object = 3 /\ seen.build = 3
  /\ objects[1] = [stage |-> "structures", build |-> 1, returned |-> TRUE]
  /\ objects[2] = [stage |-> "structures", build |-> 2, returned |-> TRUE]

StoredInShared(path) ==
  SelectSeq(_searcher.metadata.chunks, LAMBDA c : c.type = "file" /\ c.file_path = path)

C38_FurtherRoundOnlyAfterDispatch ==
  \A j \in 1..Len(api_calls) :
    j < Len(api_calls) =>
      \E d \in 1..Len(dispatched) : dispatched[d].iteration = api_calls[j].iteration

\* C39: in a build into a directory that holds no previous index the metadata
\* file is written after both structure files, so a Searcher constructed at
\* any moment of the build either loads no metadata or loads the complete
\* index of that build: its metadata and the structure of every kind that has
\* chunks, with all the vectors.
C39_FreshBuildAllOrNothing ==
  (searcher.constructed_at # "never" /\ ~previous_run.valid) =>
    \/ ~searcher.metadata.exists
    \/ /\ searcher.metadata.build = builds
       /\ searcher.metadata.chunks = all_chunks
       /\ LET nfiles == Len(SelectSeq(all_chunks, LAMBDA c : c.type = "file"))
              nfunctions == Len(SelectSeq(all_chunks, LAMBDA c : c.type = "function"))
          IN  /\ searcher.file_index.exists <=> nfiles > 0
              /\ searcher.function_index.exists <=> nfunctions > 0
              /\ searcher.file_index.exists =>
                   (searcher.file_index.build = builds
                    /\ Len(searcher.file_index.vectors) = nfiles)
              /\ searcher.function_index.exists =>
                   (searcher.function_index.build = builds
                    /\ Len(searcher.function_index.vectors) = nfunctions)

\* A Searcher constructed between the write of the two structure files of a
\* first build loaded nothing.
C39_Witness ==
  /\ builds = 1
  /\ b_pc = "building"
  /\ written = {"file"}
  /\ Len(function_embeddings) > 0
  /\ searcher.constructed_at = "building"
  /\ ~searcher.metadata.exists
  /\ disk.file_index.exists

\* C40: the content of a function chunk whose span has start_line < 1 holds
\* no line from before line 1 and none taken from the end of the file: it is
\* lines 1..min(end_line, N) of the file.
C40_StartBeforeFirstLine ==
  c_pc = "chunked" =>
    \A i \in 1..Len(c_chunks) :
      (c_chunks[i].type = "function" /\ c_chunks[i].start_line < 1) =>
        c_chunks[i].content =
          LinesFromTo(1, IF c_chunks[i].end_line < Len(c_content)
                         THEN c_chunks[i].end_line ELSE Len(c_content))

====
